---- MODULE Spec2Model ----
(***************************************************************************)
(* A state-machine model of the ringbeam channel: a ring of N slots, a     *)
(* producer and a consumer head/tail pair driven by one of four            *)
(* synchronisation modes, the participant counter, the Sender and Receiver *)
(* handles and the RecvValues iterator.  Every atomic load, store,         *)
(* compare-exchange and fetch-update of the source is one step of a        *)
(* thread; atomics are sequentially consistent in the model.               *)
(***************************************************************************)
EXTENDS Integers, Sequences, FiniteSets, TLC

\* The ring size (const generic N, a power of two, at least 2).
N == 4

\* Bounds of the model.
NumSenders == 2
NumReceivers == 2
MaxSend == 5
MaxBatch == 2
MaxIters == 2
MaxLifeSend == 2
Span == 2
MaxLapSend == 10

Senders == 1..NumSenders
Receivers == 1..NumReceivers
Slots == 0..(N - 1)

Modes == {"Single", "Multi", "HTS", "RTS"}

U16MAX == 65535

Garbage == <<0, 0>>
NoValue == <<0, -1>>

VARIABLES
    pmode,      \* P: the producers' mode
    cmode,      \* C: the consumers' mode
    ring,       \* the Ring: active, prod_headtail, cons_headtail, data, dealloc count
    snd,        \* per sender thread: handle, position in the running call, locals
    rcv,        \* per receiver thread: handle, position, locals, its iterator
    nextSeq,    \* per sender: number of values it has written so far
    recvd,      \* per receiver: the values yielded to it, in order
    flags       \* history: assertions of the tracking MaybeUninit that would have fired

vars == <<pmode, cmode, ring, snd, rcv, nextSeq, recvd, flags>>

----------------------------------------------------------------------------
\* modes/mod.rs

Min(a, b) == IF a < b THEN a ELSE b

Ok(n) == [ok |-> TRUE, n |-> n, err |-> "none"]
Err(e) == [ok |-> FALSE, n |-> 0, err |-> e]

\* A 32-bit head or tail word: the index and the finished bit (0x8000_0000).
Word(v, fin) == [v |-> v, fin |-> fin]

\* A faulty variant of Available: the producer's start is N, not N - 1.
AvailableStartN(IS_PROD, head, tail) ==
    LET start == IF IS_PROD THEN N ELSE 0
    IN  (start + tail.v + N - head.v) % N

\* The entries calculate_available counts: start is N - 1 for a producer and
\* 0 for a consumer; (start + tail - head) & (N - 1) on the index bits.
Available(IS_PROD, head, tail) ==
    LET start == IF IS_PROD THEN N - 1 ELSE 0
    IN  (start + tail.v + N - head.v) % N

\* A faulty variant of calculate_available: EXACT is not looked at.
calculate_available_inexact(IS_PROD, EXACT, head, tail, expected) ==
    LET available == Available(IS_PROD, head, tail)
    IN  IF IS_PROD /\ tail.fin THEN Err("Closed")
        ELSE IF head.fin THEN Err("Poisoned")
        ELSE IF available = 0
             THEN IF tail.fin THEN Err("Closed")
                  ELSE IF IS_PROD THEN Err("Full") ELSE Err("Empty")
        ELSE Ok(Min(expected, available))

\* A faulty variant of calculate_available: a consumer that asks for more
\* than there is gets NotEnoughItems also when the producers are gone.
calculate_available_not_closed(IS_PROD, EXACT, head, tail, expected) ==
    LET available == Available(IS_PROD, head, tail)
    IN  IF IS_PROD /\ tail.fin THEN Err("Closed")
        ELSE IF head.fin THEN Err("Poisoned")
        ELSE IF available = 0
             THEN IF tail.fin THEN Err("Closed")
                  ELSE IF IS_PROD THEN Err("Full") ELSE Err("Empty")
        ELSE IF EXACT /\ expected > available
             THEN IF IS_PROD THEN Err("NotEnoughSpace") ELSE Err("NotEnoughItems")
        ELSE Ok(Min(expected, available))

\* A faulty variant of calculate_available: a producer looks at the
\* finished bit of the consumer tail only when no entry is free.
calculate_available_late_closed(IS_PROD, EXACT, head, tail, expected) ==
    LET available == Available(IS_PROD, head, tail)
    IN  IF head.fin THEN Err("Poisoned")
        ELSE IF available = 0
             THEN IF tail.fin THEN Err("Closed")
                  ELSE IF IS_PROD THEN Err("Full") ELSE Err("Empty")
        ELSE IF EXACT /\ expected > available
             THEN IF IS_PROD THEN Err("NotEnoughSpace")
                  ELSE IF tail.fin THEN Err("NotEnoughItemsAndClosed")
                  ELSE Err("NotEnoughItems")
        ELSE Ok(Min(expected, available))

\* A faulty variant of calculate_available: the finished bit of the own
\* head is looked at first.
calculate_available_poison_first(IS_PROD, EXACT, head, tail, expected) ==
    LET available == Available(IS_PROD, head, tail)
    IN  IF head.fin THEN Err("Poisoned")
        ELSE IF IS_PROD /\ tail.fin THEN Err("Closed")
        ELSE IF available = 0
             THEN IF tail.fin THEN Err("Closed")
                  ELSE IF IS_PROD THEN Err("Full") ELSE Err("Empty")
        ELSE IF EXACT /\ expected > available
             THEN IF IS_PROD THEN Err("NotEnoughSpace")
                  ELSE IF tail.fin THEN Err("NotEnoughItemsAndClosed")
                  ELSE Err("NotEnoughItems")
        ELSE Ok(Min(expected, available))

\* calculate_available::<N, IS_PROD, EXACT>(head, tail, expected)
calculate_available(IS_PROD, EXACT, head, tail, expected) ==
    LET available == Available(IS_PROD, head, tail)
    IN  IF IS_PROD /\ tail.fin THEN Err("Closed")
        ELSE IF head.fin THEN Err("Poisoned")
        ELSE IF available = 0
             THEN IF tail.fin THEN Err("Closed")
                  ELSE IF IS_PROD THEN Err("Full") ELSE Err("Empty")
        ELSE IF EXACT /\ expected > available
             THEN IF IS_PROD THEN Err("NotEnoughSpace")
                  ELSE IF tail.fin THEN Err("NotEnoughItemsAndClosed")
                  ELSE Err("NotEnoughItems")
        ELSE Ok(Min(expected, available))

\* Claim::many(entries, start)
Claim(entries, start) == [entries |-> entries, start |-> start]
NoClaim == [entries |-> 0, start |-> 0]

\* Claim::new_tail::<N>()
new_tail(claim) == (claim.start + claim.entries) % N

\* The slot indices a claim covers.
ClaimSlots(claim) == {(claim.start + i) % N : i \in 0..(claim.entries - 1)}

----------------------------------------------------------------------------
\* The head/tail pair of one side.  Single and Multi use head and tail (two
\* AtomicU32); HeadTailSync packs (head, tail) in one AtomicU64;
\* RelaxedTailSync has head = (pos, cnt) and tail = (pos, cnt).  fin is the
\* finished bit, which every mode keeps in the top bit of the tail index.

NewHeadTail == [head |-> 0, hcnt |-> 0, tail |-> 0, tcnt |-> 0, fin |-> FALSE]

\* ModeInner::load_tail: the tail index with its finished bit.
load_tail(ht) == Word(ht.tail, ht.fin)

\* ModeInner::is_finished
is_finished(ht) == ht.fin

\* ModeInner::mark_finished: fetch_or of the finished bit (the assert that
\* it was clear is in the actions that call it).
mark_finished(ht) == [ht EXCEPT !.fin = TRUE]

\* What move_head reads of its own side before it looks at the other side.
\* Single, Multi: head.  HTS: the (head, tail) pair.  RTS: head (pos, cnt).
LoadOld(mode, ht) ==
    CASE mode = "HTS" -> [head |-> ht.head, hcnt |-> 0, tail |-> ht.tail, fin |-> ht.fin]
      [] mode = "RTS" -> [head |-> ht.head, hcnt |-> ht.hcnt, tail |-> 0, fin |-> FALSE]
      [] OTHER        -> [head |-> ht.head, hcnt |-> 0, tail |-> 0, fin |-> FALSE]

\* A faulty variant of HtsIdle: move_head does not wait for head == tail.
HtsNeverWaits(old) == TRUE

\* HeadTailSync::move_head spins while old.head != old.tail (32-bit words).
HtsIdle(old) == old.head = old.tail /\ ~old.fin

\* The value the compare-exchange of move_head compares with.
SameOld(mode, ht, old) ==
    CASE mode = "Multi" -> ht.head = old.head
      [] mode = "HTS"   -> ht.head = old.head /\ ht.tail = old.tail /\ ht.fin = old.fin
      [] mode = "RTS"   -> ht.head = old.head /\ ht.hcnt = old.hcnt
      [] OTHER          -> TRUE

\* The head after a granted claim of n entries.
AdvanceHead(mode, ht, old, n) ==
    CASE mode = "RTS" -> [ht EXCEPT !.head = (old.head + n) % N,
                                    !.hcnt = (old.hcnt + 1) % N]
      [] OTHER        -> [ht EXCEPT !.head = (old.head + n) % N]

\* A faulty variant of GrantedClaim: the claim starts where the head is
\* after the claim.
GrantedClaimAtNewHead(mode, old, n) == Claim(n, (old.head + n) % N)

\* The claim move_head returns: Claim::many(available, old_head), and
\* Claim::many(available, old.tail) in HeadTailSync.
GrantedClaim(mode, old, n) ==
    IF mode = "HTS" THEN Claim(n, old.tail) ELSE Claim(n, old.head)

\* Single::update_tail, HeadTailSync::update_tail, and the store of
\* Multi::update_tail: plain stores, which overwrite the whole word.
StoreTail(mode, ht, claim) ==
    CASE mode = "HTS" -> [ht EXCEPT !.head = new_tail(claim),
                                    !.tail = new_tail(claim), !.fin = FALSE]
      [] OTHER        -> [ht EXCEPT !.tail = new_tail(claim), !.fin = FALSE]

\* A faulty variant of TailAtStart: update_tail does not wait.
TailAnywhere(ht, claim) == TRUE

\* Multi::update_tail spins until the tail word equals the claim's start.
TailAtStart(ht, claim) == ht.tail = claim.start /\ ~ht.fin

\* A faulty variant of RtsNewTail: every update_tail moves the tail to the
\* head.
RtsNewTailEager(oldt, head) ==
    [tail |-> head.head, tcnt |-> (oldt.tcnt + 1) % N, fin |-> FALSE]

\* RelaxedTailSync::update_tail: the new tail from the tail read before and
\* the head read now.
RtsNewTail(oldt, head) ==
    LET cnt == (oldt.tcnt + 1) % N
    IN  IF cnt = head.hcnt
        THEN [tail |-> head.head, tcnt |-> cnt, fin |-> FALSE]
        ELSE [tail |-> oldt.tail, tcnt |-> cnt, fin |-> oldt.fin]

RtsTail(ht) == [tail |-> ht.tail, tcnt |-> ht.tcnt, fin |-> ht.fin]

NoOld == [head |-> 0, hcnt |-> 0, tail |-> 0, fin |-> FALSE]
NoTail == [tail |-> 0, tcnt |-> 0, fin |-> FALSE]

\* A faulty variant of MoveHeadFail: the head has moved by one entry when the
\* error is returned.
MoveHeadFailMoved(own, loc, err) ==
    [own |-> [own EXCEPT !.head = (@ + 1) % N],
     loc |-> [loc EXCEPT !.pc = "failed", !.err = err, !.old = NoOld]]

\* move_head returns the error of calculate_available (the ? operator): the
\* head is as it was.
MoveHeadFail(own, loc, err) ==
    [own |-> own, loc |-> [loc EXCEPT !.pc = "failed", !.err = err, !.old = NoOld]]

\* One step of move_head.  loc holds the locals of the running call: want
\* (expected), exact (EXACT), old, n (available).  The step at "begin" or
\* "mh_load" reads the own side, "mh_tail" reads the other side's tail and
\* computes the grant, "mh_cas" is the compare-exchange of the head.  Single
\* has the side to itself and does not loop: its move_head is one step.
\* The result is at pc "granted" (loc.claim) or "failed" (loc.err).
MoveHeadStep(mode, IS_PROD, own, other, loc) ==
    CASE loc.pc \in {"begin", "mh_load"} ->
            IF mode = "Single"
            THEN LET old == LoadOld(mode, own)
                     r == calculate_available(IS_PROD, loc.exact, Word(old.head, FALSE),
                                              load_tail(other), loc.want)
                 IN  IF r.ok
                     THEN [own |-> AdvanceHead(mode, own, old, r.n),
                           loc |-> [loc EXCEPT !.pc = "granted", !.n = r.n,
                                               !.claim = GrantedClaim(mode, old, r.n)]]
                     ELSE MoveHeadFail(own, loc, r.err)
            ELSE [own |-> own, loc |-> [loc EXCEPT !.pc = "mh_tail", !.old = LoadOld(mode, own)]]
      [] loc.pc = "mh_tail" ->
            LET r == calculate_available(IS_PROD, loc.exact, Word(loc.old.head, FALSE),
                                         load_tail(other), loc.want)
            IN  IF r.ok
                THEN [own |-> own, loc |-> [loc EXCEPT !.pc = "mh_cas", !.n = r.n]]
                ELSE MoveHeadFail(own, loc, r.err)
      [] loc.pc = "mh_cas" ->
            IF SameOld(mode, own, loc.old)
            THEN [own |-> AdvanceHead(mode, own, loc.old, loc.n),
                  loc |-> [loc EXCEPT !.pc = "granted", !.old = NoOld,
                                      !.claim = GrantedClaim(mode, loc.old, loc.n)]]
            ELSE IF mode = "HTS" /\ ~HtsIdle(LoadOld(mode, own))
                 THEN [own |-> own, loc |-> [loc EXCEPT !.pc = "mh_load", !.old = NoOld, !.n = 0]]
                 ELSE [own |-> own,
                       loc |-> [loc EXCEPT !.pc = "mh_tail", !.old = LoadOld(mode, own), !.n = 0]]

\* A spin loop of move_head the thread cannot leave in this state.
MoveHeadBlocked(mode, own, loc) ==
    mode = "HTS" /\ loc.pc \in {"begin", "mh_load"} /\ ~HtsIdle(LoadOld(mode, own))

\* Where update_tail starts in each mode.
UtStart(mode) ==
    CASE mode = "Multi" -> "ut_wait"
      [] mode = "RTS"   -> "ut_load"
      [] OTHER          -> "ut_store"

\* One step of update_tail(loc.claim).  The result is at pc "returned".
UpdateTailStep(mode, own, loc) ==
    CASE loc.pc = "ut_wait" ->
            [own |-> own, loc |-> [loc EXCEPT !.pc = "ut_store"]]
      [] loc.pc = "ut_store" ->
            [own |-> StoreTail(mode, own, loc.claim),
             loc |-> [loc EXCEPT !.pc = "returned", !.claim = NoClaim]]
      [] loc.pc = "ut_load" ->
            [own |-> own, loc |-> [loc EXCEPT !.pc = "ut_head", !.oldt = RtsTail(own)]]
      [] loc.pc = "ut_head" ->
            [own |-> own, loc |-> [loc EXCEPT !.pc = "ut_cas",
                                              !.newt = RtsNewTail(loc.oldt, own)]]
      [] loc.pc = "ut_cas" ->
            IF RtsTail(own) = loc.oldt
            THEN [own |-> [own EXCEPT !.tail = loc.newt.tail, !.tcnt = loc.newt.tcnt,
                                      !.fin = loc.newt.fin],
                  loc |-> [loc EXCEPT !.pc = "returned", !.claim = NoClaim,
                                      !.oldt = NoTail, !.newt = NoTail]]
            ELSE [own |-> own, loc |-> [loc EXCEPT !.pc = "ut_head", !.oldt = RtsTail(own),
                                                   !.newt = NoTail]]

UpdateTailBlocked(own, loc) == loc.pc = "ut_wait" /\ ~TailAtStart(own, loc.claim)

MhPcs == {"mh_load", "mh_tail", "mh_cas"}
UtPcs == {"ut_wait", "ut_store", "ut_load", "ut_head", "ut_cas"}

----------------------------------------------------------------------------
\* ring/active.rs: the participant counter.

NewActive == [producers |-> 1, consumers |-> 1]

\* AtomicActive::register_producer
register_producer(a) ==
    IF a.producers > 0 /\ a.producers < U16MAX
    THEN [ok |-> TRUE, a |-> [a EXCEPT !.producers = @ + 1], err |-> "none"]
    ELSE [ok |-> FALSE, a |-> a,
          err |-> IF a.producers = 0 THEN "Closed"
                  ELSE IF a.producers = U16MAX THEN "Poisoned" ELSE "TooManyProducers"]

\* A faulty variant of register_consumer: the registration succeeds and
\* counts nothing.
register_consumer_uncounted(a) ==
    IF a.consumers > 0 /\ a.consumers < U16MAX
    THEN [ok |-> TRUE, a |-> a, err |-> "none"]
    ELSE [ok |-> FALSE, a |-> a,
          err |-> IF a.consumers = 0 THEN "Closed"
                  ELSE IF a.consumers = U16MAX THEN "Poisoned" ELSE "TooManyConsumers"]

\* AtomicActive::register_consumer
register_consumer(a) ==
    IF a.consumers > 0 /\ a.consumers < U16MAX
    THEN [ok |-> TRUE, a |-> [a EXCEPT !.consumers = @ + 1], err |-> "none"]
    ELSE [ok |-> FALSE, a |-> a,
          err |-> IF a.consumers = 0 THEN "Closed"
                  ELSE IF a.consumers = U16MAX THEN "Poisoned" ELSE "TooManyConsumers"]

\* A faulty variant of unregister_producer: the last producer is told that
\* it was the last participant of the ring, whatever the consumers.
unregister_producer_early_ring(a) ==
    IF a.producers > 0 /\ a.producers < U16MAX
    THEN [ok |-> TRUE, a |-> [a EXCEPT !.producers = @ - 1],
          last |-> IF a.producers = 1 THEN "InRing" ELSE "NotLast"]
    ELSE [ok |-> FALSE, a |-> a, last |-> IF a.producers = 0 THEN "panic" ELSE "Poisoned"]

\* AtomicActive::unregister_producer: the Last is taken from the old value.
unregister_producer(a) ==
    IF a.producers > 0 /\ a.producers < U16MAX
    THEN [ok |-> TRUE, a |-> [a EXCEPT !.producers = @ - 1],
          last |-> IF a.producers = 1 /\ a.consumers = 0 THEN "InRing"
                   ELSE IF a.producers = 1 THEN "InCategory" ELSE "NotLast"]
    ELSE [ok |-> FALSE, a |-> a, last |-> IF a.producers = 0 THEN "panic" ELSE "Poisoned"]

\* A faulty variant of unregister_consumer: the last consumer is never told
\* that it was the last participant of the ring.
unregister_consumer_never_ring(a) ==
    IF a.consumers > 0 /\ a.consumers < U16MAX
    THEN [ok |-> TRUE, a |-> [a EXCEPT !.consumers = @ - 1],
          last |-> IF a.consumers = 1 THEN "InCategory" ELSE "NotLast"]
    ELSE [ok |-> FALSE, a |-> a, last |-> IF a.consumers = 0 THEN "panic" ELSE "Poisoned"]

\* A faulty variant of unregister_consumer: the last but one consumer is
\* told that it was the last of its category.
unregister_consumer_early_last(a) ==
    IF a.consumers > 0 /\ a.consumers < U16MAX
    THEN [ok |-> TRUE, a |-> [a EXCEPT !.consumers = @ - 1],
          last |-> IF a.consumers = 1 /\ a.producers = 0 THEN "InRing"
                   ELSE IF a.consumers <= 2 THEN "InCategory" ELSE "NotLast"]
    ELSE [ok |-> FALSE, a |-> a, last |-> IF a.consumers = 0 THEN "panic" ELSE "Poisoned"]

\* AtomicActive::unregister_consumer
unregister_consumer(a) ==
    IF a.consumers > 0 /\ a.consumers < U16MAX
    THEN [ok |-> TRUE, a |-> [a EXCEPT !.consumers = @ - 1],
          last |-> IF a.consumers = 1 /\ a.producers = 0 THEN "InRing"
                   ELSE IF a.consumers = 1 THEN "InCategory" ELSE "NotLast"]
    ELSE [ok |-> FALSE, a |-> a, last |-> IF a.consumers = 0 THEN "panic" ELSE "Poisoned"]

\* AtomicActive::poison stores u32::MAX: both counts are u16::MAX.
PoisonedActive == [producers |-> U16MAX, consumers |-> U16MAX]

\* AtomicActive::is_poisoned
is_poisoned(a) == a = PoisonedActive

\* A faulty variant of CompareExchange: the new value is stored whatever the
\* counter holds.
CompareExchangeBlind(cur, old, new) == [ok |-> TRUE, now |-> new, seen |-> cur]

\* The compare-exchange inside AtomicU32::fetch_update: the new value is
\* stored if the counter still holds the value loaded; the value seen is
\* returned either way.
CompareExchange(cur, old, new) ==
    IF cur = old THEN [ok |-> TRUE, now |-> new, seen |-> cur]
    ELSE [ok |-> FALSE, now |-> cur, seen |-> cur]

\* The closure and the result mapping of register_* and unregister_* on a
\* loaded value: whether a value is stored, the value, and what the call
\* returns ("ok" or the error of a registration, the Last or the error of an
\* unregistration).
ActiveOp(op, IS_PROD, a) ==
    LET reg == IF IS_PROD THEN register_producer(a) ELSE register_consumer(a)
        unreg == IF IS_PROD THEN unregister_producer(a) ELSE unregister_consumer(a)
    IN  IF op = "register"
        THEN [ok |-> reg.ok, a |-> reg.a, res |-> IF reg.ok THEN "ok" ELSE reg.err]
        ELSE [ok |-> unreg.ok, a |-> unreg.a, res |-> unreg.last]

\* Active::is_empty
is_empty(a) == a.consumers = 0 /\ a.producers = 0

----------------------------------------------------------------------------
\* ring/mod.rs: the Ring.

\* A slot: MaybeUninit<T>.  v is what the memory holds, init whether it is
\* an initialised value (what the tracking MaybeUninit of std.rs records).
EmptySlot == [v |-> NoValue, init |-> FALSE]

\* Ring::new: the counter at (1, 1), both head/tails default, data uninitialised.
NewRing ==
    [active |-> NewActive, prod_headtail |-> NewHeadTail, cons_headtail |-> NewHeadTail,
     data |-> [i \in Slots |-> EmptySlot], freed |-> 0]

\* A faulty variant of WriteSlots: the values of the iterator go to the
\* slots of the claim last to first.
WriteSlotsReversed(data, claim, vals) ==
    [i \in Slots |->
        IF i \in ClaimSlots(claim)
        THEN [v |-> vals[claim.entries - ((i + N - claim.start) % N)], init |-> TRUE]
        ELSE data[i]]

\* A faulty variant of WriteSlots: an offset of N or more is not wrapped,
\* and the value does not reach the ring.
WriteSlotsNoWrap(data, claim, vals) ==
    [i \in Slots |->
        IF claim.start <= i /\ i < claim.start + claim.entries
        THEN [v |-> vals[i - claim.start + 1], init |-> TRUE]
        ELSE data[i]]

\* The write loop of Ring::try_enqueue: value i of the iterator goes to slot
\* claim.start + i, minus N when that is N or more.
WriteSlots(data, claim, vals) ==
    [i \in Slots |->
        IF i \in ClaimSlots(claim)
        THEN [v |-> vals[((i + N - claim.start) % N) + 1], init |-> TRUE]
        ELSE data[i]]

\* A faulty variant of CleanupMayProceed: cleanup does not wait.
CleanupNeverWaits(r) == TRUE

\* Ring::cleanup leaves its wait loop.
CleanupMayProceed(r) ==
    ~(~is_finished(r.cons_headtail) /\ ~is_finished(r.prod_headtail))

----------------------------------------------------------------------------
\* The threads.  A thread owns at most one handle (h: "none" before it is
\* cloned, "live", "dropped") and runs one call at a time; pc is its position
\* in the call, op the call, res the value the last call returned.

NoRes == [r |-> "none", n |-> 0, back |-> NoValue]

\* A RecvValues: claim_and_ring (NoClaim for None), consumed, offset.
NoIter == [claim |-> NoClaim, consumed |-> 0, offset |-> 0]

IdleSender(h) ==
    [h |-> h, pc |-> "idle", op |-> "none", exact |-> FALSE, want |-> 0, old |-> NoOld,
     n |-> 0, claim |-> NoClaim, err |-> "none", oldt |-> NoTail, newt |-> NoTail,
     res |-> NoRes, dirty |-> FALSE]

IdleReceiver(h) ==
    [h |-> h, pc |-> "idle", op |-> "none", exact |-> FALSE, want |-> 0, old |-> NoOld,
     n |-> 0, claim |-> NoClaim, err |-> "none", oldt |-> NoTail, newt |-> NoTail,
     res |-> NoRes, dirty |-> FALSE, cur |-> 0, its |-> [k \in 1..MaxIters |-> NoIter],
     gone |-> <<>>]

\* The locals of a call that starts: op, EXACT and the expected count.
StartCall(loc, op, exact, want) ==
    [loc EXCEPT !.pc = "begin", !.op = op, !.exact = exact, !.want = want,
                !.res = NoRes, !.dirty = FALSE]

\* The call returns r, with the count n or the value handed back: the thread
\* is idle again; op, exact and want still tell what the call was.
Return(loc, r, n, back) ==
    [loc EXCEPT !.pc = "idle", !.old = NoOld, !.n = 0,
                !.claim = NoClaim, !.err = "none",
                !.res = [r |-> r, n |-> n, back |-> back]]

\* The first step of move_head in a call that starts; a HeadTailSync side
\* that is not idle keeps the caller in its spin loop.
BeginMoveHead(mode, IS_PROD, own, other, loc) ==
    IF MoveHeadBlocked(mode, own, loc)
    THEN [own |-> own, loc |-> [loc EXCEPT !.pc = "mh_load"]]
    ELSE MoveHeadStep(mode, IS_PROD, own, other, loc)

\* Sender::try_send maps the result of try_send_bulk: Err(Full) becomes
\* Ok(Some(value)) ("back"), every other error is passed on.
SendError(op, err) == IF op = "try_send" /\ err = "Full" THEN "back" ELSE err

\* Ring::try_enqueue after the claim: an error returns (try_send hands back
\* once.next(), the value the iterator still holds), a claim goes on to the
\* write loop.
AfterProdClaim(loc, value) ==
    CASE loc.pc = "failed"  ->
            Return(loc, SendError(loc.op, loc.err), 0,
                   IF SendError(loc.op, loc.err) = "back" THEN value ELSE NoValue)
      [] loc.pc = "granted" -> [loc EXCEPT !.pc = "write"]
      [] OTHER              -> loc

\* Ring::try_enqueue after return_claim_prod: Ok(n).
AfterProdReturn(loc) ==
    IF loc.pc = "returned" THEN Return(loc, "ok", loc.n, NoValue) ELSE loc

\* The i-th drop of a RecvValues' Drop: the slot, and what it held.
Dropped(data, at) == [slot |-> at, v |-> data[at].v, init |-> data[at].init]

\* A faulty variant of DropLoop: the loop starts at the first slot of the
\* claim instead of the next unread offset.
RECURSIVE DropLoopFromStart(_, _, _)
DropLoopFromStart(data, it, gone) ==
    IF it.consumed = it.claim.entries THEN [data |-> data, gone |-> gone]
    ELSE LET at == (it.claim.start + Len(gone)) % N
         IN  DropLoopFromStart([data EXCEPT ![at].init = FALSE],
                               [it EXCEPT !.consumed = @ + 1],
                               Append(gone, Dropped(data, at)))

\* The loop of Drop for RecvValues: while consumed != claim.entries(),
\* assume_init_drop of the slot at offset, then consumed and offset step,
\* the offset masked to N.  The result is the data and the drops in order.
RECURSIVE DropLoop(_, _, _)
DropLoop(data, it, gone) ==
    IF it.consumed = it.claim.entries THEN [data |-> data, gone |-> gone]
    ELSE DropLoop([data EXCEPT ![it.offset].init = FALSE],
                  [it EXCEPT !.consumed = @ + 1, !.offset = (@ + 1) % N],
                  Append(gone, Dropped(data, it.offset)))

\* The thread's record after a step that took the ring from r0 to r1.
Stepped(loc, r0, r1) == [loc EXCEPT !.dirty = @ \/ (r1 # r0)]

----------------------------------------------------------------------------
\* The state after Ring::new: one Sender and one Receiver (threads 1), every
\* other thread without a handle, nothing sent, nothing received.

NoFlags == [badRead |-> FALSE, dblWrite |-> FALSE, earlyRead |-> FALSE, panic |-> FALSE]

InitModes(P, C) ==
    /\ pmode = P
    /\ cmode = C
    /\ ring = NewRing
    /\ snd = [s \in Senders |-> IdleSender(IF s = 1 THEN "live" ELSE "none")]
    /\ rcv = [r \in Receivers |-> IdleReceiver(IF r = 1 THEN "live" ELSE "none")]
    /\ nextSeq = [s \in Senders |-> 0]
    /\ recvd = [r \in Receivers |-> <<>>]
    /\ flags = NoFlags

----------------------------------------------------------------------------
\* producer.rs: the Sender.

\* The i-th value a sender sends.
Value(s, i) == <<s, i>>

RECURSIVE SumTo(_, _)
SumTo(f, k) == IF k = 0 THEN 0 ELSE f[k] + SumTo(f, k - 1)

\* The number of values written so far, by all senders.
TotalSent == SumTo(nextSeq, NumSenders)

\* A send call starts: Ring::try_enqueue::<EXACT> asks for values.len()
\* entries; the step is the first step of move_head.
ProdCall(s, op, exact, want) ==
    /\ snd[s].h = "live"
    /\ snd[s].pc = "idle"
    /\ TotalSent + want <= MaxSend
    /\ LET out == BeginMoveHead(pmode, TRUE, ring.prod_headtail, ring.cons_headtail,
                                StartCall(snd[s], op, exact, want))
           r1 == [ring EXCEPT !.prod_headtail = out.own]
       IN  /\ ring' = r1
           /\ snd' = [snd EXCEPT ![s] =
                        Stepped(AfterProdClaim(out.loc, Value(s, nextSeq[s] + 1)), ring, r1)]
    /\ UNCHANGED <<pmode, cmode, rcv, nextSeq, recvd, flags>>

\* Sender::try_send_bulk(values), values.len() = n, in a run long enough
\* for the head to go round the ring more than once: up to MaxLapSend
\* values in all.
SendBulkInLaps(s, n) ==
    /\ snd[s].h = "live"
    /\ snd[s].pc = "idle"
    /\ TotalSent + n <= MaxLapSend
    /\ LET out == BeginMoveHead(pmode, TRUE, ring.prod_headtail, ring.cons_headtail,
                                StartCall(snd[s], "bulk", TRUE, n))
           r1 == [ring EXCEPT !.prod_headtail = out.own]
       IN  /\ ring' = r1
           /\ snd' = [snd EXCEPT ![s] =
                        Stepped(AfterProdClaim(out.loc, Value(s, nextSeq[s] + 1)), ring, r1)]
    /\ UNCHANGED <<pmode, cmode, rcv, nextSeq, recvd, flags>>

\* Sender::try_send(value)
TrySend(s) == ProdCall(s, "try_send", TRUE, 1)

\* Sender::try_send_bulk(values), values.len() = n
TrySendBulk(s, n) == ProdCall(s, "bulk", TRUE, n)

\* Sender::try_send_burst(values), values.len() = n
TrySendBurst(s, n) == ProdCall(s, "burst", FALSE, n)

\* The next step of a running move_head of the producer side.
ProdMoveHead(s) ==
    /\ snd[s].pc \in MhPcs
    /\ ~MoveHeadBlocked(pmode, ring.prod_headtail, snd[s])
    /\ LET out == MoveHeadStep(pmode, TRUE, ring.prod_headtail, ring.cons_headtail, snd[s])
           r1 == [ring EXCEPT !.prod_headtail = out.own]
       IN  /\ ring' = r1
           /\ snd' = [snd EXCEPT ![s] =
                        Stepped(AfterProdClaim(out.loc, Value(s, nextSeq[s] + 1)), ring, r1)]
    /\ UNCHANGED <<pmode, cmode, rcv, nextSeq, recvd, flags>>

\* The write loop of Ring::try_enqueue: the first claim.entries values of the
\* iterator go to the claimed slots; then return_claim_prod starts.
ProdWrite(s) ==
    /\ snd[s].pc = "write"
    /\ LET claim == snd[s].claim
           vals == [i \in 1..claim.entries |-> Value(s, nextSeq[s] + i)]
           r1 == [ring EXCEPT !.data = WriteSlots(ring.data, claim, vals)]
       IN  /\ ring' = r1
           /\ snd' = [snd EXCEPT ![s] = Stepped([snd[s] EXCEPT !.pc = UtStart(pmode)], ring, r1)]
           /\ nextSeq' = [nextSeq EXCEPT ![s] = @ + claim.entries]
           /\ flags' = [flags EXCEPT !.dblWrite =
                           @ \/ (\E i \in ClaimSlots(claim) : ring.data[i].init)]
    /\ UNCHANGED <<pmode, cmode, rcv, recvd>>

\* The next step of update_tail of the producer side (return_claim_prod).
ProdUpdateTail(s) ==
    /\ snd[s].pc \in UtPcs
    /\ ~UpdateTailBlocked(ring.prod_headtail, snd[s])
    /\ LET out == UpdateTailStep(pmode, ring.prod_headtail, snd[s])
           r1 == [ring EXCEPT !.prod_headtail = out.own]
       IN  /\ ring' = r1
           /\ snd' = [snd EXCEPT ![s] = Stepped(AfterProdReturn(out.loc), ring, r1)]
    /\ UNCHANGED <<pmode, cmode, rcv, nextSeq, recvd, flags>>

\* Clone for Sender (P: Mode + Sync): Sender::new registers a producer.  A
\* failed registration panics in the expect and is no step here.
CloneSender(s, t) ==
    /\ snd[s].h = "live"
    /\ snd[s].pc = "idle"
    /\ snd[t].h = "none"
    /\ pmode # "Single"
    /\ register_producer(ring.active).ok
    /\ ring' = [ring EXCEPT !.active = register_producer(ring.active).a]
    /\ snd' = [snd EXCEPT ![t] = IdleSender("live")]
    /\ UNCHANGED <<pmode, cmode, rcv, nextSeq, recvd, flags>>

\* Where a handle or iterator goes after it has unregistered.
AfterUnregister(last) ==
    CASE last = "InCategory" -> "mark"
      [] last = "InRing"     -> "cleanup"
      [] OTHER               -> "idle"

\* The thread's record after the expect on a failed unregistration has
\* panicked: the handle or iterator is gone, the call has ended.
ExpectPanics(loc) ==
    [Return(loc, "panic", 0, NoValue) EXCEPT !.h = IF loc.op = "drop" THEN "dropped" ELSE @]

\* Drop for Sender, not panicking: unregister_producer, then by the Last; a
\* failed unregistration panics in the expect.
DropSender(s) ==
    /\ snd[s].h = "live"
    /\ snd[s].pc = "idle"
    /\ ring' = [ring EXCEPT !.active = unregister_producer(ring.active).a]
    /\ snd' = [snd EXCEPT ![s] =
                 IF unregister_producer(ring.active).ok
                 THEN [IdleSender("dropped") EXCEPT
                          !.pc = AfterUnregister(unregister_producer(ring.active).last)]
                 ELSE ExpectPanics([IdleSender("live") EXCEPT !.op = "drop"])]
    /\ flags' = [flags EXCEPT !.panic = @ \/ ~unregister_producer(ring.active).ok]
    /\ UNCHANGED <<pmode, cmode, rcv, nextSeq, recvd>>

\* Drop for Sender on a panicking thread: Ring::poison, and nothing else.
PanicDropSender(s) ==
    /\ snd[s].h = "live"
    /\ snd[s].pc = "idle"
    /\ ring' = [ring EXCEPT !.active = PoisonedActive]
    /\ snd' = [snd EXCEPT ![s] = [IdleSender("dropped") EXCEPT !.op = "panic_drop"]]
    /\ UNCHANGED <<pmode, cmode, rcv, nextSeq, recvd, flags>>

\* Ring::mark_prod_finished, by the last producer.
ProdMarkFinished(s) ==
    /\ snd[s].pc = "mark"
    /\ ring' = [ring EXCEPT !.prod_headtail = mark_finished(@)]
    /\ snd' = [snd EXCEPT ![s].pc = "idle"]
    /\ flags' = [flags EXCEPT !.panic = @ \/ is_finished(ring.prod_headtail)]
    /\ UNCHANGED <<pmode, cmode, rcv, nextSeq, recvd>>

\* Ring::cleanup by a sender: the assert, the wait loop, the dealloc.
ProdCleanup(s) ==
    /\ snd[s].pc = "cleanup"
    /\ CleanupMayProceed(ring)
    /\ ring' = [ring EXCEPT !.freed = @ + 1]
    /\ snd' = [snd EXCEPT ![s].pc = "idle"]
    /\ flags' = [flags EXCEPT !.panic = @ \/ ~is_empty(ring.active)]
    /\ UNCHANGED <<pmode, cmode, rcv, nextSeq, recvd>>

----------------------------------------------------------------------------
\* consumer.rs and ring/recv_values.rs: the Receiver and its RecvValues.

\* Ring::try_dequeue after the claim: an error returns, a claim goes on to
\* RecvValues::new.
AfterConsClaim(loc) ==
    CASE loc.pc = "failed"  -> Return(loc, loc.err, 0, NoValue)
      [] loc.pc = "granted" -> [loc EXCEPT !.pc = "reg"]
      [] OTHER              -> loc

\* The end of a call of the consumer side: try_recv returns Ok(value), a
\* next() or a drop returns to its caller.
FinishCons(loc) ==
    IF loc.op = "try_recv"
    THEN [Return(loc, "ok", 1, NoValue) EXCEPT !.cur = 0, !.gone = <<>>]
    ELSE [Return(loc, "none", 0, NoValue) EXCEPT !.cur = 0, !.gone = <<>>]

\* A free place for one more RecvValues of the thread.
FreeIter(loc) == CHOOSE k \in 1..MaxIters : loc.its[k] = NoIter /\
                    \A j \in 1..MaxIters : loc.its[j] = NoIter => k <= j

\* A receive call starts: Ring::try_dequeue::<EXACT>(n); the step is the
\* first step of move_head.
ConsCall(r, op, exact, want) ==
    /\ rcv[r].h = "live"
    /\ rcv[r].pc = "idle"
    /\ \E k \in 1..MaxIters : rcv[r].its[k] = NoIter
    /\ LET out == BeginMoveHead(cmode, FALSE, ring.cons_headtail, ring.prod_headtail,
                                StartCall(rcv[r], op, exact, want))
           r1 == [ring EXCEPT !.cons_headtail = out.own]
       IN  /\ ring' = r1
           /\ rcv' = [rcv EXCEPT ![r] = Stepped(AfterConsClaim(out.loc), ring, r1)]
    /\ UNCHANGED <<pmode, cmode, snd, nextSeq, recvd, flags>>

\* Receiver::try_recv()
TryRecv(r) == ConsCall(r, "try_recv", TRUE, 1)

\* Receiver::try_recv_bulk(n)
TryRecvBulk(r, n) == ConsCall(r, "bulk", TRUE, n)

\* Receiver::try_recv_burst(n)
TryRecvBurst(r, n) == ConsCall(r, "burst", FALSE, n)

\* The next step of a running move_head of the consumer side.
ConsMoveHead(r) ==
    /\ rcv[r].pc \in MhPcs
    /\ ~MoveHeadBlocked(cmode, ring.cons_headtail, rcv[r])
    /\ LET out == MoveHeadStep(cmode, FALSE, ring.cons_headtail, ring.prod_headtail, rcv[r])
           r1 == [ring EXCEPT !.cons_headtail = out.own]
       IN  /\ ring' = r1
           /\ rcv' = [rcv EXCEPT ![r] = Stepped(AfterConsClaim(out.loc), ring, r1)]
    /\ UNCHANGED <<pmode, cmode, snd, nextSeq, recvd, flags>>

\* RecvValues::new(ring, claim): register_consumer, then the iterator with
\* consumed = 0 and offset = claim.start.  try_recv goes on to next(),
\* try_recv_bulk and try_recv_burst return the iterator.  A failed
\* registration returns the error and drops the claim, whose Drop panics.
NewRecvValues(r) ==
    /\ rcv[r].pc = "reg"
    /\ LET reg == register_consumer(ring.active)
           me == rcv[r]
           k == FreeIter(me)
           it == [claim |-> me.claim, consumed |-> 0, offset |-> me.claim.start]
           r1 == [ring EXCEPT !.active = reg.a]
       IN  /\ ring' = r1
           /\ rcv' = [rcv EXCEPT ![r] =
                Stepped(IF ~reg.ok THEN Return(me, reg.err, 0, NoValue)
                        ELSE IF me.op = "try_recv"
                        THEN [me EXCEPT !.pc = "next", !.cur = k, !.claim = NoClaim,
                                        !.its[k] = it]
                        ELSE [Return(me, "ok", me.n, NoValue) EXCEPT !.its[k] = it],
                        ring, r1)]
           /\ flags' = [flags EXCEPT !.panic = @ \/ ~reg.ok]
    /\ UNCHANGED <<pmode, cmode, snd, nextSeq, recvd>>

\* The slots of outstanding producer claims: granted and not yet returned.
ProdClaimed == UNION {ClaimSlots(snd[s].claim) : s \in Senders}

\* assume_init_take of a slot: its value, or, read uninitialised, what the
\* memory still holds or anything else.
TakeOutcomes(slot) ==
    IF slot.init THEN {slot.v}
    ELSE {Garbage} \cup (IF slot.v = NoValue THEN {} ELSE {slot.v})

\* The body of RecvValues::next on iterator k of thread r, claim present:
\* take the value at offset, count it, step the offset; with the last value
\* taken the claim is given back (return_claim_cons starts).
DoNext(r, k, me) ==
    LET it == me.its[k]
        slot == ring.data[it.offset]
        r1 == [ring EXCEPT !.data[it.offset].init = FALSE]
        stepped == [it EXCEPT !.consumed = @ + 1, !.offset = (@ + 1) % N]
    IN  \E v \in TakeOutcomes(slot) :
            /\ ring' = r1
            /\ recvd' = [recvd EXCEPT ![r] = Append(@, v)]
            /\ flags' = [flags EXCEPT !.badRead = @ \/ ~slot.init,
                                      !.earlyRead = @ \/ (it.offset \in ProdClaimed)]
            /\ rcv' = [rcv EXCEPT ![r] =
                 Stepped(IF stepped.consumed >= it.claim.entries
                         THEN [me EXCEPT !.its[k] = NoIter, !.claim = it.claim,
                                         !.cur = k, !.pc = UtStart(cmode)]
                         ELSE [me EXCEPT !.its[k] = stepped, !.pc = "idle"],
                         ring, r1)]
            /\ UNCHANGED <<pmode, cmode, snd, nextSeq>>

\* The res.next() of Receiver::try_recv.
TryRecvNext(r) ==
    /\ rcv[r].pc = "next"
    /\ DoNext(r, rcv[r].cur, rcv[r])

\* RecvValues::next called by the owner of iterator k, claim present.
IterNext(r, k) ==
    /\ rcv[r].pc = "idle"
    /\ rcv[r].its[k] # NoIter
    /\ DoNext(r, k, [rcv[r] EXCEPT !.op = "next", !.res = NoRes, !.dirty = FALSE])

\* The slots a RecvValues has not yet yielded.
Remaining(it) ==
    {(it.offset + i) % N : i \in 0..(it.claim.entries - it.consumed - 1)}

\* Drop for RecvValues k of thread r, claim present: the drop loop over
\* every value left, then the claim is given back (return_claim_cons
\* starts).  gone keeps the drops of the loop until the Drop has ended.
IterDrop(r, k) ==
    /\ rcv[r].pc = "idle"
    /\ rcv[r].its[k] # NoIter
    /\ LET it == rcv[r].its[k]
           loop == DropLoop(ring.data, it, <<>>)
           r1 == [ring EXCEPT !.data = loop.data]
       IN  /\ ring' = r1
           /\ flags' = [flags EXCEPT
                 !.badRead = @ \/ (\E i \in 1..Len(loop.gone) : ~loop.gone[i].init),
                 !.earlyRead = @ \/ (Remaining(it) \cap ProdClaimed # {})]
           /\ rcv' = [rcv EXCEPT ![r] =
                 [@ EXCEPT !.its[k] = NoIter, !.claim = it.claim, !.cur = k, !.op = "drop",
                           !.res = NoRes, !.dirty = FALSE, !.pc = UtStart(cmode),
                           !.gone = loop.gone]]
    /\ UNCHANGED <<pmode, cmode, snd, nextSeq, recvd>>

\* The next step of update_tail of the consumer side (return_claim_cons);
\* the iterator unregisters next.
ConsUpdateTail(r) ==
    /\ rcv[r].pc \in UtPcs
    /\ ~UpdateTailBlocked(ring.cons_headtail, rcv[r])
    /\ LET out == UpdateTailStep(cmode, ring.cons_headtail, rcv[r])
           r1 == [ring EXCEPT !.cons_headtail = out.own]
       IN  /\ ring' = r1
           /\ rcv' = [rcv EXCEPT ![r] =
                 Stepped(IF out.loc.pc = "returned" THEN [out.loc EXCEPT !.pc = "unreg"]
                         ELSE out.loc, ring, r1)]
    /\ UNCHANGED <<pmode, cmode, snd, nextSeq, recvd, flags>>

\* The thread's record after unregister_consumer returned Last.
Unregistered(loc, last) ==
    IF AfterUnregister(last) = "idle" THEN FinishCons(loc)
    ELSE [loc EXCEPT !.pc = AfterUnregister(last)]

\* unregister_consumer of a RecvValues that gave its claim back; a failed
\* unregistration panics in the expect.
IterUnregister(r) ==
    /\ rcv[r].pc = "unreg"
    /\ LET r1 == [ring EXCEPT !.active = unregister_consumer(ring.active).a]
       IN  /\ ring' = r1
           /\ rcv' = [rcv EXCEPT ![r] =
                 IF unregister_consumer(ring.active).ok
                 THEN Stepped(Unregistered(rcv[r], unregister_consumer(ring.active).last),
                              ring, r1)
                 ELSE [ExpectPanics([rcv[r] EXCEPT !.op = "iter_drop"]) EXCEPT
                          !.cur = 0, !.gone = <<>>]]
    /\ flags' = [flags EXCEPT !.panic = @ \/ ~unregister_consumer(ring.active).ok]
    /\ UNCHANGED <<pmode, cmode, snd, nextSeq, recvd>>

\* Ring::mark_cons_finished, by the last consumer.
ConsMarkFinished(r) ==
    /\ rcv[r].pc = "mark"
    /\ ring' = [ring EXCEPT !.cons_headtail = mark_finished(@)]
    /\ rcv' = [rcv EXCEPT ![r] = FinishCons([@ EXCEPT !.dirty = TRUE])]
    /\ flags' = [flags EXCEPT !.panic = @ \/ is_finished(ring.cons_headtail)]
    /\ UNCHANGED <<pmode, cmode, snd, nextSeq, recvd>>

\* Ring::cleanup by a receiver or an iterator: the assert, the wait loop,
\* the dealloc.
ConsCleanup(r) ==
    /\ rcv[r].pc = "cleanup"
    /\ CleanupMayProceed(ring)
    /\ ring' = [ring EXCEPT !.freed = @ + 1]
    /\ rcv' = [rcv EXCEPT ![r] = FinishCons([@ EXCEPT !.dirty = TRUE])]
    /\ flags' = [flags EXCEPT !.panic = @ \/ ~is_empty(ring.active)]
    /\ UNCHANGED <<pmode, cmode, snd, nextSeq, recvd>>

\* Clone for Receiver (C: Mode + Sync): Receiver::new registers a consumer.
\* A failed registration panics in the expect and is no step here.
CloneReceiver(r, t) ==
    /\ rcv[r].h = "live"
    /\ rcv[r].pc = "idle"
    /\ rcv[t].h = "none"
    /\ cmode # "Single"
    /\ register_consumer(ring.active).ok
    /\ ring' = [ring EXCEPT !.active = register_consumer(ring.active).a]
    /\ rcv' = [rcv EXCEPT ![t] = IdleReceiver("live")]
    /\ UNCHANGED <<pmode, cmode, snd, nextSeq, recvd, flags>>

\* Drop for Receiver, not panicking: unregister_consumer, then by the Last;
\* a failed unregistration panics in the expect.  The iterators the thread
\* still holds stay usable.
DropReceiver(r) ==
    /\ rcv[r].h = "live"
    /\ rcv[r].pc = "idle"
    /\ ring' = [ring EXCEPT !.active = unregister_consumer(ring.active).a]
    /\ rcv' = [rcv EXCEPT ![r] =
                 IF unregister_consumer(ring.active).ok
                 THEN Unregistered([@ EXCEPT !.h = "dropped", !.op = "drop", !.res = NoRes,
                                             !.dirty = FALSE],
                                   unregister_consumer(ring.active).last)
                 ELSE ExpectPanics([@ EXCEPT !.op = "drop", !.dirty = FALSE])]
    /\ flags' = [flags EXCEPT !.panic = @ \/ ~unregister_consumer(ring.active).ok]
    /\ UNCHANGED <<pmode, cmode, snd, nextSeq, recvd>>

\* Drop for Receiver on a panicking thread that holds no RecvValues:
\* Ring::poison, and nothing else.
PanicDropReceiver(r) ==
    /\ rcv[r].h = "live"
    /\ rcv[r].pc = "idle"
    /\ \A k \in 1..MaxIters : rcv[r].its[k] = NoIter
    /\ ring' = [ring EXCEPT !.active = PoisonedActive]
    /\ rcv' = [rcv EXCEPT ![r] = [IdleReceiver("dropped") EXCEPT !.op = "panic_drop"]]
    /\ UNCHANGED <<pmode, cmode, snd, nextSeq, recvd, flags>>

----------------------------------------------------------------------------
\* One sender, one receiver, Single on both sides: the sender sends, the
\* receiver has one RecvValues at a time and consumes it to its end.

InitSPSC == InitModes("Single", "Single")

NextSPSC ==
    \/ TrySend(1)
    \/ \E n \in 1..MaxBatch : TrySendBulk(1, n)
    \/ \E n \in 1..MaxBatch : TrySendBurst(1, n)
    \/ ProdWrite(1)
    \/ ProdUpdateTail(1)
    \/ DropSender(1)
    \/ ProdMarkFinished(1)
    \/ rcv[1].its[1] = NoIter /\ TryRecv(1)
    \/ \E n \in 1..MaxBatch : rcv[1].its[1] = NoIter /\ TryRecvBulk(1, n)
    \/ \E n \in 1..MaxBatch : rcv[1].its[1] = NoIter /\ TryRecvBurst(1, n)
    \/ NewRecvValues(1)
    \/ TryRecvNext(1)
    \/ IterNext(1, 1)
    \/ ConsUpdateTail(1)
    \/ IterUnregister(1)

SpecSPSC == InitSPSC /\ [][NextSPSC]_vars

----------------------------------------------------------------------------
\* One sender (Single) that sends one lap of the ring, N values; several
\* receivers (Multi) that call try_recv.

InitSPMC == InitModes("Single", "Multi")

NextSPMC ==
    \/ nextSeq[1] < N /\ TrySend(1)
    \/ ProdWrite(1)
    \/ ProdUpdateTail(1)
    \/ DropSender(1)
    \/ ProdMarkFinished(1)
    \/ \E r \in Receivers : CloneReceiver(1, r)
    \/ \E r \in Receivers : TryRecv(r)
    \/ \E r \in Receivers : ConsMoveHead(r)
    \/ \E r \in Receivers : NewRecvValues(r)
    \/ \E r \in Receivers : TryRecvNext(r)
    \/ \E r \in Receivers : ConsUpdateTail(r)
    \/ \E r \in Receivers : IterUnregister(r)

SpecSPMC == InitSPMC /\ [][NextSPMC]_vars

----------------------------------------------------------------------------
\* Several senders (Multi) that call try_send, one receiver (Single) that
\* calls try_recv.

InitMPSC == InitModes("Multi", "Single")

NextMPSC ==
    \/ \E s \in Senders : CloneSender(1, s)
    \/ \E s \in Senders : TrySend(s)
    \/ \E s \in Senders : ProdMoveHead(s)
    \/ \E s \in Senders : ProdWrite(s)
    \/ \E s \in Senders : ProdUpdateTail(s)
    \/ \E s \in Senders : DropSender(s)
    \/ \E s \in Senders : ProdMarkFinished(s)
    \/ TryRecv(1)
    \/ NewRecvValues(1)
    \/ TryRecvNext(1)
    \/ ConsUpdateTail(1)
    \/ IterUnregister(1)

SpecMPSC == InitMPSC /\ [][NextMPSC]_vars

----------------------------------------------------------------------------
\* RelaxedTailSync on both sides: several senders that call try_send, one
\* receiver that calls try_recv.

InitRTS == InitModes("RTS", "RTS")

NextRTS ==
    \/ \E s \in Senders : CloneSender(1, s)
    \/ \E s \in Senders : TrySend(s)
    \/ \E s \in Senders : ProdMoveHead(s)
    \/ \E s \in Senders : ProdWrite(s)
    \/ \E s \in Senders : ProdUpdateTail(s)
    \/ TryRecv(1)
    \/ ConsMoveHead(1)
    \/ NewRecvValues(1)
    \/ TryRecvNext(1)
    \/ ConsUpdateTail(1)
    \/ IterUnregister(1)

SpecRTS == InitRTS /\ [][NextRTS]_vars

----------------------------------------------------------------------------
\* RelaxedTailSync on both sides, long enough for the head of the producer
\* side to come back to a position and counter it had: two senders that
\* call try_send_bulk with MaxBatch values, one receiver that calls
\* try_recv_bulk for MaxBatch values and drops what it got.

NextLap ==
    \/ CloneSender(1, 2)
    \/ \E s \in Senders : SendBulkInLaps(s, MaxBatch)
    \/ \E s \in Senders : ProdMoveHead(s)
    \/ \E s \in Senders : ProdWrite(s)
    \/ \E s \in Senders : ProdUpdateTail(s)
    \/ rcv[1].its[1] = NoIter /\ TryRecvBulk(1, MaxBatch)
    \/ ConsMoveHead(1)
    \/ NewRecvValues(1)
    \/ IterDrop(1, 1)
    \/ ConsUpdateTail(1)
    \/ IterUnregister(1)

SpecLap == InitRTS /\ [][NextLap]_vars

----------------------------------------------------------------------------
\* One sender and one receiver thread in every combination of modes:
\* try_send and try_send_bulk, try_recv and try_recv_bulk, the receiver with
\* one RecvValues at a time, which it consumes to its end.

InitModesAll == \E P \in Modes : \E C \in Modes : InitModes(P, C)

NextModes ==
    \/ TrySend(1)
    \/ \E n \in 1..MaxBatch : TrySendBulk(1, n)
    \/ ProdMoveHead(1)
    \/ ProdWrite(1)
    \/ ProdUpdateTail(1)
    \/ rcv[1].its[1] = NoIter /\ TryRecv(1)
    \/ \E n \in 1..MaxBatch : rcv[1].its[1] = NoIter /\ TryRecvBulk(1, n)
    \/ ConsMoveHead(1)
    \/ NewRecvValues(1)
    \/ TryRecvNext(1)
    \/ IterNext(1, 1)
    \/ ConsUpdateTail(1)
    \/ IterUnregister(1)

SpecModes == InitModesAll /\ [][NextModes]_vars

----------------------------------------------------------------------------
\* One sender and one receiver thread in every combination of modes, with
\* the whole life of the ring: every kind of send and receive, the receiver
\* with one RecvValues at a time, which it consumes or drops, and the drop
\* of the Sender and of the Receiver at any moment between two calls.  The
\* sender starts no send once it has written MaxLifeSend values.

NextLife ==
    \/ nextSeq[1] < MaxLifeSend /\ TrySend(1)
    \/ \E n \in 1..MaxBatch : nextSeq[1] < MaxLifeSend /\ TrySendBulk(1, n)
    \/ \E n \in 1..MaxBatch : nextSeq[1] < MaxLifeSend /\ TrySendBurst(1, n)
    \/ ProdMoveHead(1)
    \/ ProdWrite(1)
    \/ ProdUpdateTail(1)
    \/ DropSender(1)
    \/ ProdMarkFinished(1)
    \/ ProdCleanup(1)
    \/ rcv[1].its[1] = NoIter /\ TryRecv(1)
    \/ \E n \in 1..MaxBatch : rcv[1].its[1] = NoIter /\ TryRecvBulk(1, n)
    \/ \E n \in 1..MaxBatch : rcv[1].its[1] = NoIter /\ TryRecvBurst(1, n)
    \/ ConsMoveHead(1)
    \/ NewRecvValues(1)
    \/ TryRecvNext(1)
    \/ IterNext(1, 1)
    \/ IterDrop(1, 1)
    \/ ConsUpdateTail(1)
    \/ IterUnregister(1)
    \/ DropReceiver(1)
    \/ ConsMarkFinished(1)
    \/ ConsCleanup(1)

SpecLife == InitModesAll /\ [][NextLife]_vars

----------------------------------------------------------------------------
\* The handles of a ring: Multi on both sides, Senders and Receivers are
\* cloned and dropped in any order, a sender sends one value at a time, a
\* receiver takes bursts and uses or drops its RecvValues.

InitHandles == InitModes("Multi", "Multi")

NextHandles ==
    \/ \E s \in Senders : CloneSender(1, s)
    \/ \E s \in Senders : TotalSent < MaxLifeSend /\ TrySend(s)
    \/ \E s \in Senders : ProdMoveHead(s)
    \/ \E s \in Senders : ProdWrite(s)
    \/ \E s \in Senders : ProdUpdateTail(s)
    \/ \E s \in Senders : DropSender(s)
    \/ \E s \in Senders : ProdMarkFinished(s)
    \/ \E s \in Senders : ProdCleanup(s)
    \/ \E r \in Receivers : CloneReceiver(1, r)
    \/ \E r \in Receivers : rcv[r].its[1] = NoIter /\ TryRecvBurst(r, MaxBatch)
    \/ \E r \in Receivers : ConsMoveHead(r)
    \/ \E r \in Receivers : NewRecvValues(r)
    \/ \E r \in Receivers : IterNext(r, 1)
    \/ \E r \in Receivers : IterDrop(r, 1)
    \/ \E r \in Receivers : ConsUpdateTail(r)
    \/ \E r \in Receivers : IterUnregister(r)
    \/ \E r \in Receivers : DropReceiver(r)
    \/ \E r \in Receivers : ConsMarkFinished(r)
    \/ \E r \in Receivers : ConsCleanup(r)

SpecHandles == InitHandles /\ [][NextHandles]_vars

----------------------------------------------------------------------------
\* One sender and one receiver thread in every combination of modes: the
\* sender sends, the receiver has one RecvValues at a time and consumes it
\* or drops it at any point.

NextDrain ==
    \/ TrySend(1)
    \/ \E n \in 1..MaxBatch : TrySendBulk(1, n)
    \/ ProdMoveHead(1)
    \/ ProdWrite(1)
    \/ ProdUpdateTail(1)
    \/ \E n \in 1..MaxBatch : rcv[1].its[1] = NoIter /\ TryRecvBulk(1, n)
    \/ \E n \in 1..MaxBatch : rcv[1].its[1] = NoIter /\ TryRecvBurst(1, n)
    \/ ConsMoveHead(1)
    \/ NewRecvValues(1)
    \/ IterNext(1, 1)
    \/ IterDrop(1, 1)
    \/ ConsUpdateTail(1)
    \/ IterUnregister(1)

SpecDrain == InitModesAll /\ [][NextDrain]_vars

----------------------------------------------------------------------------
\* One thread that owns the Sender and the Receiver of a ring, in every
\* combination of modes: one call runs at a time; the thread sends one value
\* or up to N - 1 values in bulk, receives one value or up to N - 1 values in
\* bulk, and reads the RecvValues it holds.

OneThread == snd[1].pc = "idle" /\ rcv[1].pc = "idle"

NextRound ==
    \/ OneThread /\ TrySend(1)
    \/ \E n \in 1..(N - 1) : OneThread /\ TrySendBulk(1, n)
    \/ ProdMoveHead(1)
    \/ ProdWrite(1)
    \/ ProdUpdateTail(1)
    \/ OneThread /\ rcv[1].its[1] = NoIter /\ TryRecv(1)
    \/ \E n \in 1..(N - 1) : OneThread /\ rcv[1].its[1] = NoIter /\ TryRecvBulk(1, n)
    \/ ConsMoveHead(1)
    \/ NewRecvValues(1)
    \/ TryRecvNext(1)
    \/ OneThread /\ IterNext(1, 1)
    \/ ConsUpdateTail(1)
    \/ IterUnregister(1)

SpecRound == InitModesAll /\ [][NextRound]_vars

----------------------------------------------------------------------------
\* Sends of no value and receives of no value (ring/mod.rs).

\* Ring::claim_prod(0) and Ring::claim_cons(0), then the test of
\* claim.entries() in try_enqueue and try_dequeue: with no entry available
\* the finished bit of the other tail gives Closed; in every other case the
\* claim has no entries (Claim::zero(), or Claim::many(0, old_head) after a
\* head that is stored back unchanged) and the call returns Full or Empty.
ZeroClaim(IS_PROD, own, other) ==
    IF Available(IS_PROD, Word(own.head, FALSE), load_tail(other)) = 0 /\ is_finished(other)
    THEN "Closed"
    ELSE IF IS_PROD THEN "Full" ELSE "Empty"

\* Sender::try_send_bulk and try_send_burst with an iterator of length 0.
TrySendZero(s, exact) ==
    /\ snd[s].h = "live"
    /\ snd[s].pc = "idle"
    /\ snd' = [snd EXCEPT ![s] =
                 Return(StartCall(snd[s], IF exact THEN "bulk" ELSE "burst", exact, 0),
                        ZeroClaim(TRUE, ring.prod_headtail, ring.cons_headtail), 0, NoValue)]
    /\ UNCHANGED <<pmode, cmode, ring, rcv, nextSeq, recvd, flags>>

\* Receiver::try_recv_bulk(0) and try_recv_burst(0).
TryRecvZero(r, exact) ==
    /\ rcv[r].h = "live"
    /\ rcv[r].pc = "idle"
    /\ rcv' = [rcv EXCEPT ![r] =
                 Return(StartCall(rcv[r], IF exact THEN "bulk" ELSE "burst", exact, 0),
                        ZeroClaim(FALSE, ring.cons_headtail, ring.prod_headtail), 0, NoValue)]
    /\ UNCHANGED <<pmode, cmode, ring, snd, nextSeq, recvd, flags>>

\* One sender and one receiver thread in every combination of modes: single
\* sends and receives, and bulks and bursts of length 0.
NextZero ==
    \/ TrySend(1)
    \/ \E exact \in BOOLEAN : TrySendZero(1, exact)
    \/ ProdMoveHead(1)
    \/ ProdWrite(1)
    \/ ProdUpdateTail(1)
    \/ DropSender(1)
    \/ ProdMarkFinished(1)
    \/ ProdCleanup(1)
    \/ rcv[1].its[1] = NoIter /\ TryRecv(1)
    \/ \E exact \in BOOLEAN : TryRecvZero(1, exact)
    \/ ConsMoveHead(1)
    \/ NewRecvValues(1)
    \/ TryRecvNext(1)
    \/ ConsUpdateTail(1)
    \/ IterUnregister(1)
    \/ DropReceiver(1)
    \/ ConsMarkFinished(1)
    \/ ConsCleanup(1)

SpecZero == InitModesAll /\ [][NextZero]_vars

----------------------------------------------------------------------------
\* The participant counter on its own: the producers' side and the
\* consumers' side register and unregister participants, each call a
\* fetch_update (a load, then compare-exchanges until one succeeds or the
\* closure declines), and a panicking Drop poisons the counter.  The counts
\* start at 1 or Span below u16::MAX and stay within Span of 0 and of
\* u16::MAX.

\* fetch_update after a load of prev: the closure declines and the call
\* returns Err(prev) mapped, or the compare-exchange is next.  The loaded
\* value is kept in old.
AfterLoad(loc, IS_PROD, prev) ==
    IF ActiveOp(loc.op, IS_PROD, prev).ok
    THEN [loc EXCEPT !.pc = "fu_cas", !.old = prev]
    ELSE Return(loc, ActiveOp(loc.op, IS_PROD, prev).res, 0, NoValue)

\* fetch_update at its compare-exchange: on success the call returns, on
\* failure it goes on with the value seen.
AfterCas(loc, IS_PROD, cas) ==
    IF cas.ok THEN Return(loc, ActiveOp(loc.op, IS_PROD, loc.old).res, 0, NoValue)
    ELSE AfterLoad([loc EXCEPT !.dirty = TRUE], IS_PROD, cas.seen)

\* The count a registration may start from: not Span, whose successor is
\* outside the counts of the model.
MayRegister(cnt) == cnt # Span

\* The count an unregistration may start from: a participant exists, and
\* the predecessor is within the counts of the model.
MayUnregister(cnt) == cnt > 0 /\ cnt # U16MAX - Span

InitActive ==
    /\ pmode = "Multi"
    /\ cmode = "Multi"
    /\ \E p \in {1, U16MAX - Span} : \E c \in {1, U16MAX - Span} :
          ring = [NewRing EXCEPT !.active = [producers |-> p, consumers |-> c]]
    /\ snd = [s \in Senders |-> IdleSender(IF s = 1 THEN "live" ELSE "none")]
    /\ rcv = [r \in Receivers |-> IdleReceiver(IF r = 1 THEN "live" ELSE "none")]
    /\ nextSeq = [s \in Senders |-> 0]
    /\ recvd = [r \in Receivers |-> <<>>]
    /\ flags = NoFlags

\* Sender::new (Clone): register_producer starts.
RegisterProducer(s) ==
    /\ snd[s].h = "live"
    /\ snd[s].pc = "idle"
    /\ MayRegister(ring.active.producers)
    /\ snd' = [snd EXCEPT ![s] =
                 AfterLoad(StartCall(snd[s], "register", FALSE, 0), TRUE, ring.active)]
    /\ UNCHANGED <<pmode, cmode, ring, rcv, nextSeq, recvd, flags>>

\* Drop for Sender: unregister_producer starts.
UnregisterProducer(s) ==
    /\ snd[s].h = "live"
    /\ snd[s].pc = "idle"
    /\ MayUnregister(ring.active.producers)
    /\ snd' = [snd EXCEPT ![s] =
                 AfterLoad(StartCall(snd[s], "unregister", FALSE, 0), TRUE, ring.active)]
    /\ UNCHANGED <<pmode, cmode, ring, rcv, nextSeq, recvd, flags>>

\* The compare-exchange of a producer's fetch_update.
ProducerCas(s) ==
    /\ snd[s].pc = "fu_cas"
    /\ LET cas == CompareExchange(ring.active, snd[s].old,
                                  ActiveOp(snd[s].op, TRUE, snd[s].old).a)
       IN  /\ ring' = [ring EXCEPT !.active = cas.now]
           /\ snd' = [snd EXCEPT ![s] = AfterCas(snd[s], TRUE, cas)]
    /\ UNCHANGED <<pmode, cmode, rcv, nextSeq, recvd, flags>>

\* Receiver::new (Clone) and RecvValues::new: register_consumer starts.
RegisterConsumer(r) ==
    /\ rcv[r].h = "live"
    /\ rcv[r].pc = "idle"
    /\ MayRegister(ring.active.consumers)
    /\ rcv' = [rcv EXCEPT ![r] =
                 AfterLoad(StartCall(rcv[r], "register", FALSE, 0), FALSE, ring.active)]
    /\ UNCHANGED <<pmode, cmode, ring, snd, nextSeq, recvd, flags>>

\* Drop for Receiver and for RecvValues: unregister_consumer starts.
UnregisterConsumer(r) ==
    /\ rcv[r].h = "live"
    /\ rcv[r].pc = "idle"
    /\ MayUnregister(ring.active.consumers)
    /\ rcv' = [rcv EXCEPT ![r] =
                 AfterLoad(StartCall(rcv[r], "unregister", FALSE, 0), FALSE, ring.active)]
    /\ UNCHANGED <<pmode, cmode, ring, snd, nextSeq, recvd, flags>>

\* The compare-exchange of a consumer's fetch_update.
ConsumerCas(r) ==
    /\ rcv[r].pc = "fu_cas"
    /\ LET cas == CompareExchange(ring.active, rcv[r].old,
                                  ActiveOp(rcv[r].op, FALSE, rcv[r].old).a)
       IN  /\ ring' = [ring EXCEPT !.active = cas.now]
           /\ rcv' = [rcv EXCEPT ![r] = AfterCas(rcv[r], FALSE, cas)]
    /\ UNCHANGED <<pmode, cmode, snd, nextSeq, recvd, flags>>

\* Ring::poison, from the Drop of a handle on a panicking thread.
Poison ==
    /\ ring' = [ring EXCEPT !.active = PoisonedActive]
    /\ UNCHANGED <<pmode, cmode, snd, rcv, nextSeq, recvd, flags>>

NextActive ==
    \/ RegisterProducer(1)
    \/ UnregisterProducer(1)
    \/ ProducerCas(1)
    \/ RegisterConsumer(1)
    \/ UnregisterConsumer(1)
    \/ ConsumerCas(1)
    \/ Poison

SpecActive == InitActive /\ [][NextActive]_vars

----------------------------------------------------------------------------
\* The life of a ring with one sender and one receiver thread, as in
\* NextLife, where either thread may panic between two calls and drop its
\* handle while panicking.

NextPoison ==
    \/ NextLife
    \/ PanicDropSender(1)
    \/ PanicDropReceiver(1)

SpecPoison == InitModesAll /\ [][NextPoison]_vars

----------------------------------------------------------------------------
\* calculate_available on its own: a caller of the producer side (the
\* sender's record) or of the consumer side (the receiver's record) holds a
\* head word in old (head, fin), a tail word in oldt (tail, fin), EXACT in
\* exact and the expected count in want, each of them any value there is,
\* and applies the function.

\* The record of a caller with its arguments.
WithArguments(loc, head, hfin, tail, tfin, EXACT, expected) ==
    [loc EXCEPT !.op = "arguments", !.exact = EXACT, !.want = expected,
                !.old = [NoOld EXCEPT !.head = head, !.fin = hfin],
                !.oldt = [NoTail EXCEPT !.tail = tail, !.fin = tfin]]

\* The record of a caller after calculate_available has returned.
Applied(loc, IS_PROD) ==
    LET r == calculate_available(IS_PROD, loc.exact, Word(loc.old.head, loc.old.fin),
                                 Word(loc.oldt.tail, loc.oldt.fin), loc.want)
    IN  [loc EXCEPT !.op = "calculate_available",
                    !.res = [NoRes EXCEPT !.r = IF r.ok THEN "ok" ELSE r.err, !.n = r.n]]

InitAvail ==
    /\ pmode = "Single"
    /\ cmode = "Single"
    /\ ring = NewRing
    /\ nextSeq = [s \in Senders |-> 0]
    /\ recvd = [r \in Receivers |-> <<>>]
    /\ flags = NoFlags
    /\ \E IS_PROD \in BOOLEAN, EXACT \in BOOLEAN, expected \in 1..N :
       \E head \in Slots, tail \in Slots, hfin \in BOOLEAN, tfin \in BOOLEAN :
          /\ snd = [s \in Senders |->
                      IF s = 1 /\ IS_PROD
                      THEN WithArguments(IdleSender("live"), head, hfin, tail, tfin,
                                         EXACT, expected)
                      ELSE IdleSender(IF s = 1 THEN "live" ELSE "none")]
          /\ rcv = [r \in Receivers |->
                      IF r = 1 /\ ~IS_PROD
                      THEN WithArguments(IdleReceiver("live"), head, hfin, tail, tfin,
                                         EXACT, expected)
                      ELSE IdleReceiver(IF r = 1 THEN "live" ELSE "none")]

\* calculate_available::<N, true, EXACT>(head, tail, expected)
CalculateAvailableProd(s) ==
    /\ snd[s].op = "arguments"
    /\ snd' = [snd EXCEPT ![s] = Applied(snd[s], TRUE)]
    /\ UNCHANGED <<pmode, cmode, ring, rcv, nextSeq, recvd, flags>>

\* calculate_available::<N, false, EXACT>(head, tail, expected)
CalculateAvailableCons(r) ==
    /\ rcv[r].op = "arguments"
    /\ rcv' = [rcv EXCEPT ![r] = Applied(rcv[r], FALSE)]
    /\ UNCHANGED <<pmode, cmode, ring, snd, nextSeq, recvd, flags>>

NextAvail ==
    \/ CalculateAvailableProd(1)
    \/ CalculateAvailableCons(1)

SpecAvail == InitAvail /\ [][NextAvail]_vars

----------------------------------------------------------------------------
\* One sender and one receiver thread in every combination of modes, with
\* bursts only: try_send_burst of up to MaxBatch values, try_recv_burst of
\* up to MaxBatch, the receiver with one RecvValues at a time, which it
\* consumes to its end.

NextBurst ==
    \/ \E n \in 1..MaxBatch : TrySendBurst(1, n)
    \/ ProdMoveHead(1)
    \/ ProdWrite(1)
    \/ ProdUpdateTail(1)
    \/ \E n \in 1..MaxBatch : rcv[1].its[1] = NoIter /\ TryRecvBurst(1, n)
    \/ ConsMoveHead(1)
    \/ NewRecvValues(1)
    \/ IterNext(1, 1)
    \/ ConsUpdateTail(1)
    \/ IterUnregister(1)

SpecBurst == InitModesAll /\ [][NextBurst]_vars

----------------------------------------------------------------------------
\* HeadTailSync on both sides: several senders that call try_send, several
\* receivers that call try_recv.  No send starts once MaxLifeSend values
\* have been written.

InitHTS == InitModes("HTS", "HTS")

NextHTS ==
    \/ \E s \in Senders : CloneSender(1, s)
    \/ \E s \in Senders : TotalSent < MaxLifeSend /\ TrySend(s)
    \/ \E s \in Senders : ProdMoveHead(s)
    \/ \E s \in Senders : ProdWrite(s)
    \/ \E s \in Senders : ProdUpdateTail(s)
    \/ \E r \in Receivers : CloneReceiver(1, r)
    \/ \E r \in Receivers : TryRecv(r)
    \/ \E r \in Receivers : ConsMoveHead(r)
    \/ \E r \in Receivers : NewRecvValues(r)
    \/ \E r \in Receivers : TryRecvNext(r)
    \/ \E r \in Receivers : ConsUpdateTail(r)
    \/ \E r \in Receivers : IterUnregister(r)

SpecHTS == InitHTS /\ [][NextHTS]_vars

----------------------------------------------------------------------------
\* One sender (Single) and one receiver thread in every consumer mode; the
\* receiver takes RecvValues by try_recv_burst while it has room for one
\* more, up to MaxIters at a time, and reads or drops them in any order.

InitIters == \E C \in Modes : InitModes("Single", C)

NextIters ==
    \/ TrySend(1)
    \/ \E n \in 1..MaxBatch : TrySendBulk(1, n)
    \/ ProdWrite(1)
    \/ ProdUpdateTail(1)
    \/ \E n \in 1..MaxBatch : TryRecvBurst(1, n)
    \/ ConsMoveHead(1)
    \/ NewRecvValues(1)
    \/ \E k \in 1..MaxIters : IterNext(1, k)
    \/ \E k \in 1..MaxIters : IterDrop(1, k)
    \/ ConsUpdateTail(1)
    \/ IterUnregister(1)

SpecIters == InitIters /\ [][NextIters]_vars

----------------------------------------------------------------------------
\* One sender (Single) and several receivers (Multi) that call try_recv,
\* under fair scheduling: a call that can take its next step takes it.  The
\* thread of the Sender may panic and drop the Sender between two calls.
\* The sender starts no send once it has written MaxLifeSend values.

NextStall ==
    \/ nextSeq[1] < MaxLifeSend /\ TrySend(1)
    \/ ProdWrite(1)
    \/ ProdUpdateTail(1)
    \/ PanicDropSender(1)
    \/ \E r \in Receivers : CloneReceiver(1, r)
    \/ \E r \in Receivers : TryRecv(r)
    \/ \E r \in Receivers : ConsMoveHead(r)
    \/ \E r \in Receivers : NewRecvValues(r)
    \/ \E r \in Receivers : TryRecvNext(r)
    \/ \E r \in Receivers : ConsUpdateTail(r)
    \/ \E r \in Receivers : IterUnregister(r)

\* Every thread that is in a call is scheduled again and again.
FairStall ==
    /\ WF_vars(ProdWrite(1))
    /\ WF_vars(ProdUpdateTail(1))
    /\ \A r \in Receivers :
        /\ WF_vars(ConsMoveHead(r))
        /\ WF_vars(NewRecvValues(r))
        /\ WF_vars(TryRecvNext(r))
        /\ WF_vars(ConsUpdateTail(r))
        /\ WF_vars(IterUnregister(r))

SpecStall == InitSPMC /\ [][NextStall]_vars /\ FairStall

----------------------------------------------------------------------------
\* size_hint of a RecvValues.  NoIter stands for a RecvValues whose
\* claim_and_ring is None.

\* RecvValues::size_hint of ring/recv_values.rs: claim.entries() - consumed.
size_hint(it) == IF it = NoIter THEN 0 ELSE it.claim.entries - it.consumed

\* RecvValues::size_hint of ring.rs: claim.entries() - offset, in u32.  With
\* the offset above the entries the subtraction overflows: a build with
\* overflow checks panics, one without them wraps to 2^32 - (offset - entries),
\* written here as the negative number with the same 32 bits.
size_hint_ring(it) ==
    IF it = NoIter THEN {[panic |-> FALSE, left |-> 0]}
    ELSE IF it.claim.entries >= it.offset
         THEN {[panic |-> FALSE, left |-> it.claim.entries - it.offset]}
         ELSE {[panic |-> TRUE, left |-> 0],
               [panic |-> FALSE, left |-> it.claim.entries - it.offset]}

\* The owner of iterator k calls size_hint; left is what it returns as
\* (left, Some(left)), impl the file of the implementation.
SizeHintCall(r, k, impl, panic, left) ==
    /\ rcv[r].pc = "idle"
    /\ rcv[r].h = "live"
    /\ rcv' = [rcv EXCEPT ![r] =
                 [@ EXCEPT !.op = impl, !.dirty = FALSE,
                           !.res = [NoRes EXCEPT !.r = IF panic THEN "panic" ELSE "hint",
                                                 !.n = left]]]
    /\ flags' = [flags EXCEPT !.panic = @ \/ panic]
    /\ UNCHANGED <<pmode, cmode, ring, snd, nextSeq, recvd>>

IterSizeHint(r, k) == SizeHintCall(r, k, "recv_values.rs", FALSE, size_hint(rcv[r].its[k]))

IterSizeHintRing(r, k) ==
    \E o \in size_hint_ring(rcv[r].its[k]) : SizeHintCall(r, k, "ring.rs", o.panic, o.left)

\* One sender, one receiver, Single on both sides: sends, bursts of up to
\* MaxBatch, one RecvValues at a time, which is read to its end, with
\* size_hint called at any point.
NextHint ==
    \/ TrySend(1)
    \/ ProdWrite(1)
    \/ ProdUpdateTail(1)
    \/ \E n \in 1..MaxBatch : rcv[1].its[1] = NoIter /\ TryRecvBurst(1, n)
    \/ NewRecvValues(1)
    \/ IterNext(1, 1)
    \/ IterSizeHint(1, 1)
    \/ IterSizeHintRing(1, 1)
    \/ ConsUpdateTail(1)
    \/ IterUnregister(1)

SpecHint == InitSPSC /\ [][NextHint]_vars

----------------------------------------------------------------------------
\* What the properties below speak about.

\* The places of the values yielded so far: receiver and position.
Yields == UNION {{<<r, i>> : i \in 1..Len(recvd[r])} : r \in Receivers}

YieldedAt(y) == recvd[y[1]][y[2]]

\* The values written so far by successful claims.
Sent == UNION {{Value(s, i) : i \in 1..nextSeq[s]} : s \in Senders}

\* Every receiver that has a handle got Closed from its last call.
AllClosed ==
    /\ \E r \in Receivers : rcv[r].h = "live"
    /\ \A r \in Receivers : rcv[r].h = "live" =>
            rcv[r].pc = "idle" /\ rcv[r].res.r = "Closed"

\* The values of sender s in what receiver r was yielded, in yield order.
SeqOf(r, s) == SelectSeq(recvd[r], LAMBDA v : v[1] = s)

Increasing(q) == \A i, j \in 1..Len(q) : i < j => q[i][2] < q[j][2]

\* The holders of claims: sender threads, receiver threads (between the
\* claim and RecvValues::new, and while the claim is given back), iterators.
Holders ==
    {<<"snd", s, 0>> : s \in Senders} \cup {<<"rcv", r, 0>> : r \in Receivers}
        \cup {<<"it", r, k>> : r \in Receivers, k \in 1..MaxIters}

HeldSlots(h) ==
    CASE h[1] = "snd" -> ClaimSlots(snd[h[2]].claim)
      [] h[1] = "rcv" -> ClaimSlots(rcv[h[2]].claim)
      [] OTHER        -> ClaimSlots(rcv[h[2]].its[h[3]].claim)

\* The free slots by the definition of the ring: N - 1 less the distance
\* from the consumer tail to the producer head.
FreeSlots ==
    N - 1 - ((ring.prod_headtail.head + N - ring.cons_headtail.tail) % N)

\* No receive has touched the ring.
Fresh ==
    /\ ring.cons_headtail = NewHeadTail
    /\ \A r \in Receivers : recvd[r] = <<>> /\ rcv[r].claim = NoClaim
                            /\ \A k \in 1..MaxIters : rcv[r].its[k] = NoIter

Transient == {"Empty", "Full", "NotEnoughItems", "NotEnoughSpace"}

----------------------------------------------------------------------------
\* C1: in every interleaving of senders and receivers, each value yielded to
\* a receiver was written by exactly one successful send, no sent value is
\* yielded twice, and once every receiver has got Closed every sent value
\* has been yielded.
C1_Conservation ==
    /\ \A y \in Yields : YieldedAt(y) \in Sent
    /\ \A y, z \in Yields : y # z => YieldedAt(y) # YieldedAt(z)
    /\ AllClosed => \A v \in Sent : \E y \in Yields : YieldedAt(y) = v

\* C2: with Multi producers and several senders, the single consumer
\* receives the values of each sender in the order that sender sent them.
C2_PerSenderOrder == \A s \in Senders : Increasing(SeqOf(1, s))

\* C3: with RelaxedTailSync on both sides and two senders, the single
\* consumer receives each sender's values in sending order and never takes
\* a value from a slot whose producer claim has not been returned.
C3_RtsOrderAndReturnedClaims ==
    /\ \A s \in Senders : \A i \in 1..(Len(SeqOf(1, s)) - 1) :
            SeqOf(1, s)[i][2] < SeqOf(1, s)[i + 1][2]
    /\ ~flags.earlyRead

\* C4: one sender and one receiver, Single/Single: what the receiver has
\* got is at every moment the start of the sent sequence, in order, also
\* past the wrap of the slot index from N - 1 to 0; when it gets Closed it
\* has got the whole sequence.
C4_SpscSequence ==
    /\ \A i \in 1..Len(recvd[1]) : recvd[1][i] = Value(1, i)
    /\ (rcv[1].pc = "idle" /\ rcv[1].res.r = "Closed") => Len(recvd[1]) = nextSeq[1]

C4_Witness ==
    /\ rcv[1].pc = "idle"
    /\ rcv[1].res.r = "Closed"
    /\ Len(recvd[1]) > N

\* C5: the slots that are initialised or reserved for writing are never
\* more than N - 1: the producer head does not catch up with the consumer
\* tail.
C5_NoOversubscription ==
    Cardinality({i \in Slots : ring.data[i].init \/ i \in ProdClaimed}) <= N - 1

\* C6: on a ring no receive has touched, a try_send returns Ok(None) only
\* while at most N - 1 values are in the ring, and it returns Ok(Some(value))
\* only when N - 1 values are in it, with the value it was given and with the
\* ring as it was; it returns nothing else.
C6_FreshRingCapacity ==
    Fresh => \A s \in Senders :
        (snd[s].pc = "idle" /\ snd[s].op = "try_send") =>
            /\ snd[s].res.r \in {"ok", "back"}
            /\ snd[s].res.r = "ok" => TotalSent <= N - 1
            /\ snd[s].res.r = "back" =>
                    /\ TotalSent = N - 1
                    /\ snd[s].res.back = Value(s, nextSeq[s] + 1)
                    /\ ~snd[s].dirty

C6_Witness ==
    /\ Fresh
    /\ snd[1].pc = "idle"
    /\ snd[1].op = "try_send"
    /\ snd[1].res.r = "back"
    /\ TotalSent = N - 1

\* C7: the slot ranges of all outstanding claims, of producers and of
\* consumers, are pairwise disjoint.
C7_ClaimsDisjoint ==
    \A g, h \in Holders : g # h => HeldSlots(g) \cap HeldSlots(h) = {}

\* C8: every slot a consumer takes or drops is initialised, its producer
\* claim returned, and every slot a producer writes is not initialised.
C8_SlotDiscipline == ~flags.badRead /\ ~flags.earlyRead /\ ~flags.dblWrite

\* C9: try_send_bulk is all-or-nothing.  A claim it is granted has as many
\* entries as the iterator has values; its write loop puts the values, in
\* order, into the slots from the claim's start on; it returns Ok(n) only
\* with n the iterator's length; it returns NotEnoughSpace when some but
\* fewer slots than that are free, Full when none is, and then the step
\* that returns leaves the ring as it is and no step of the call has
\* changed it.
C9_BulkAllOrNothing ==
    [][\A s \in Senders : (snd'[s].op = "bulk" /\ snd'[s] # snd[s]) =>
        /\ (snd'[s].pc = "write") => snd'[s].claim.entries = snd'[s].want
        /\ (snd[s].pc = "write") =>
                \A i \in 0..(snd[s].want - 1) :
                    ring'.data[(snd[s].claim.start + i) % N] =
                        [v |-> Value(s, nextSeq[s] + i + 1), init |-> TRUE]
        /\ (snd'[s].pc = "idle") =>
                /\ snd'[s].res.r \in {"ok", "NotEnoughSpace", "Full"}
                /\ snd'[s].res.r = "ok" => snd'[s].res.n = snd'[s].want
                /\ snd'[s].res.r = "NotEnoughSpace" =>
                        /\ 0 < FreeSlots /\ FreeSlots < snd'[s].want
                        /\ ring' = ring /\ ~snd'[s].dirty
                /\ snd'[s].res.r = "Full" =>
                        /\ FreeSlots = 0
                        /\ ring' = ring /\ ~snd'[s].dirty
      ]_vars

C9_Witness ==
    /\ snd[1].pc = "idle"
    /\ snd[1].op = "bulk"
    /\ snd[1].res.r = "NotEnoughSpace"
    /\ FreeSlots = 1
    /\ Len(recvd[1]) > 0

\* C10: a send or receive that returned Empty, Full (try_send: the value
\* handed back), NotEnoughItems or NotEnoughSpace has not changed the ring:
\* heads, tails, slots and participant counter are as before the call, and
\* the caller holds no claim and no new iterator.
C10_TransientErrorsKeepState ==
    /\ \A s \in Senders :
        (snd[s].pc = "idle" /\ snd[s].res.r \in Transient \cup {"back"}) =>
            ~snd[s].dirty /\ snd[s].claim = NoClaim
    /\ \A r \in Receivers :
        (rcv[r].pc = "idle" /\ rcv[r].res.r \in Transient) =>
            /\ ~rcv[r].dirty
            /\ rcv[r].claim = NoClaim
            /\ \A k \in 1..MaxIters : rcv[r].its[k] = NoIter

C10_Witness ==
    /\ snd[1].pc = "idle"
    /\ snd[1].res.r = "NotEnoughSpace"
    /\ rcv[1].pc = "idle"
    /\ rcv[1].res.r = "NotEnoughItems"
    /\ nextSeq[1] > 0

----------------------------------------------------------------------------
\* The Sender is gone: dropped, and its drop has run to its end.
SenderGone == snd[1].h = "dropped" /\ snd[1].pc = "idle"

\* The values in the ring: the slots that hold a value not yet taken.
InRing == Cardinality({i \in Slots : ring.data[i].init})

\* A step in which a call of receiver r returns an error.
RecvFails(r) ==
    /\ rcv'[r] # rcv[r]
    /\ rcv[r].pc \in {"idle"} \cup MhPcs
    /\ rcv'[r].pc = "idle"
    /\ rcv'[r].res.r \notin {"ok", "none"}

\* A step in which move_head of receiver r reads the producer tail and
\* finds entries to claim: n is what it will claim.
RecvGranted(r) ==
    \/ rcv[r].pc = "idle" /\ rcv'[r].pc = "reg"
    \/ rcv[r].pc \in {"idle", "mh_load", "mh_tail"} /\ rcv'[r].pc = "mh_cas"

ConsumersGone ==
    /\ rcv[1].h = "dropped"
    /\ rcv[1].pc = "idle"
    /\ \A k \in 1..MaxIters : rcv[1].its[k] = NoIter
    /\ is_finished(ring.cons_headtail)

\* A step in which a call of sender s returns.
SendReturns(s) ==
    /\ snd'[s] # snd[s]
    /\ snd'[s].h = "live"
    /\ snd[s].pc \in {"idle"} \cup MhPcs \cup UtPcs
    /\ snd'[s].pc = "idle"

\* A step in which move_head of sender s reads the consumer tail and finds
\* entries to claim.
SendGranted(s) ==
    \/ snd[s].pc = "idle" /\ snd'[s].pc = "write"
    \/ snd[s].pc \in {"idle", "mh_load", "mh_tail"} /\ snd'[s].pc = "mh_cas"

C13_StickyClosure ==
    [][/\ (SendReturns(1) /\ snd'[1].res.r = "Closed") =>
                is_finished(ring'.cons_headtail)
       /\ is_finished(ring.cons_headtail) => is_finished(ring'.cons_headtail)
       /\ is_finished(ring.prod_headtail) => is_finished(ring'.prod_headtail)
       /\ ring.active.consumers = 0 => ring'.active.consumers = 0
       /\ ring.active.producers = 0 => ring'.active.producers = 0
       /\ (is_finished(ring.cons_headtail) /\ SendReturns(1) /\ snd[1].pc \notin UtPcs) =>
                snd'[1].res.r \in {"Closed", "Poisoned"}
      ]_vars

\* A second try_send has returned Closed: the first one wrote nothing, and
\* the sender has sent before.
C13_Witness ==
    /\ is_finished(ring.cons_headtail)
    /\ ring.active.consumers = 0
    /\ snd[1].h = "live"
    /\ snd[1].pc = "idle"
    /\ snd[1].op = "try_send"
    /\ snd[1].res.r = "Closed"
    /\ nextSeq[1] > 0

\* Every handle and every RecvValues is dropped, and every Drop has run to
\* its end.
AllGone ==
    /\ \A s \in Senders : snd[s].h # "live" /\ snd[s].pc = "idle"
    /\ \A r \in Receivers : /\ rcv[r].h # "live"
                             /\ rcv[r].pc = "idle"
                             /\ \A k \in 1..MaxIters : rcv[r].its[k] = NoIter

\* C14: in an execution without a panic the ring is deallocated at most
\* once, Ring::cleanup deallocates only with the counter at (0, 0), and with
\* every Sender, Receiver and RecvValues dropped it is deallocated once.
C14_DeallocatedOnce ==
    [][~flags'.panic =>
         /\ ring'.freed <= 1
         /\ ring'.freed # ring.freed => is_empty(ring.active)
         /\ AllGone' => ring'.freed = 1
      ]_vars

\* Two Senders, two Receivers and a RecvValues have been dropped, the last
\* of them a RecvValues that still held values.
C14_Witness ==
    /\ AllGone
    /\ ring.freed = 1
    /\ \A s \in {1, 2} : snd[s].h = "dropped"
    /\ \A r \in {1, 2} : rcv[r].h = "dropped"
    /\ \E r \in Receivers : rcv[r].op = "drop" /\ rcv[r].dirty
    /\ InRing = 0
    /\ TotalSent > 0

\* The receiver's RecvValues is dropped in this step, with values left.
DropsIter == rcv[1].pc = "idle" /\ rcv[1].its[1] # NoIter /\ rcv'[1].op = "drop"

\* The claim of a dropped RecvValues is given back in this step.
DropReturnsClaim == rcv[1].op = "drop" /\ rcv[1].pc \in UtPcs /\ rcv'[1].pc = "unreg"

\* C15: the Drop of a RecvValues that yielded j of its e entries drops the
\* e - j values left, each one live and never yielded, in slot order from
\* slot start + j, wrapping at N; nothing else changes in the ring and the
\* consumer tail stays where it is; the claim is given back afterwards, with
\* none of its slots holding a value, and the consumer tail is then at the
\* end of the claim.
C15_DropDrains ==
    [][/\ DropsIter =>
            LET it == rcv[1].its[1]
                gone == rcv'[1].gone
            IN  /\ Len(gone) = it.claim.entries - it.consumed
                /\ \A i \in 1..Len(gone) :
                      /\ gone[i].slot = (it.claim.start + it.consumed + i - 1) % N
                      /\ gone[i].init
                      /\ gone[i].v = ring.data[gone[i].slot].v
                      /\ gone[i].v \in Sent
                      /\ \A y \in Yields : YieldedAt(y) # gone[i].v
                      /\ ~ring'.data[gone[i].slot].init
                /\ \A i \in Slots :
                      (\A k \in 1..Len(gone) : gone[k].slot # i) => ring'.data[i] = ring.data[i]
                /\ ring'.cons_headtail = ring.cons_headtail
                /\ rcv'[1].claim = it.claim
       /\ DropReturnsClaim =>
            /\ \A i \in ClaimSlots(rcv[1].claim) : ~ring.data[i].init
            /\ ring'.cons_headtail.tail = new_tail(rcv[1].claim)
      ]_vars

\* A RecvValues over the slots N - 1 and 0 was dropped with both values
\* left, and its claim has been given back.
C15_Witness ==
    /\ rcv[1].op = "drop"
    /\ rcv[1].pc = "unreg"
    /\ Len(rcv[1].gone) = 2
    /\ rcv[1].gone[1].slot = N - 1
    /\ rcv[1].gone[2].slot = 0

\* No thread has a Receiver, and a RecvValues still holds a claim.
OnlyIterators ==
    /\ \A r \in Receivers : rcv[r].h # "live"
    /\ \E r \in Receivers : rcv[r].its[1] # NoIter

\* C16: with every Receiver dropped and a RecvValues still holding a claim,
\* the ring is not deallocated, the consumer tail is not marked finished,
\* the consumer count is not zero, every slot the iterator has not yet
\* yielded holds a sent value, and a next() yields the value at its offset.
C16_IteratorKeepsRingOpen ==
    [][OnlyIterators =>
         /\ ring.freed = 0
         /\ ~is_finished(ring.cons_headtail)
         /\ ring.active.consumers >= 1
         /\ \A r \in Receivers : rcv[r].its[1] # NoIter =>
               /\ \A i \in Remaining(rcv[r].its[1]) :
                     ring.data[i].init /\ ring.data[i].v \in Sent
               /\ (rcv[r].pc = "idle" /\ rcv'[r].op = "next" /\ rcv'[r] # rcv[r]) =>
                     recvd'[r] = Append(recvd[r], ring.data[rcv[r].its[1].offset].v)
      ]_vars

\* Both Receivers are dropped, the Sender too, and a RecvValues of two
\* entries has yielded one of them since.
C16_Witness ==
    /\ \A r \in {1, 2} : rcv[r].h = "dropped"
    /\ snd[1].h = "dropped"
    /\ \E r \in Receivers : /\ rcv[r].its[1] # NoIter
                            /\ rcv[r].its[1].consumed = 1
                            /\ rcv[r].op = "next"
                            /\ Len(recvd[r]) = 1
    /\ ring.freed = 0

\* No call is running, no RecvValues is held and every value sent has been
\* received.
RingEmpty ==
    /\ OneThread
    /\ rcv[1].its[1] = NoIter
    /\ Len(recvd[1]) = nextSeq[1]

\* The values sent and not yet received.
Outstanding == nextSeq[1] - Len(recvd[1])

\* C17: in one thread, a try_send or a try_send_bulk of up to N - 1 values
\* on an empty ring succeeds in full; a try_recv or try_recv_bulk of no more
\* than the values in the ring is granted in full; the values received are
\* the values sent, in order; and with every value received the ring is
\* empty again: no slot holds a value, and heads and tails of both sides
\* are at the same place.
C17_RoundTrip ==
    [][/\ (RingEmpty /\ SendReturns(1)) =>
             /\ snd'[1].res.r = "ok"
             /\ snd'[1].res.n = snd'[1].want
             /\ nextSeq'[1] = nextSeq[1] + snd'[1].want
       /\ (OneThread /\ rcv[1].its[1] = NoIter /\ RecvFails(1)) => rcv'[1].want > Outstanding
       /\ (OneThread /\ rcv[1].its[1] = NoIter /\ RecvGranted(1)) => rcv'[1].n = rcv'[1].want
       /\ \A i \in 1..Len(recvd'[1]) : recvd'[1][i] = Value(1, i)
       /\ RingEmpty' =>
             /\ InRing' = 0
             /\ ring'.prod_headtail.head = ring'.prod_headtail.tail
             /\ ring'.cons_headtail.head = ring'.cons_headtail.tail
             /\ ring'.prod_headtail.tail = ring'.cons_headtail.tail
      ]_vars

\* A try_send_bulk of N - 1 values over the end of the ring was followed by
\* a try_recv_bulk(N - 1) whose RecvValues has been read to its end.
C17_Witness ==
    /\ RingEmpty
    /\ snd[1].op = "bulk"
    /\ snd[1].want = N - 1
    /\ snd[1].res.r = "ok"
    /\ rcv[1].want = N - 1
    /\ rcv[1].op = "next"
    /\ Len(recvd[1]) = MaxSend
    /\ recvd[1][MaxSend] = Value(1, MaxSend)
    /\ ring.cons_headtail.tail < N - 1

\* C18: a bulk or burst send of no value returns Ok(0), a receive of n = 0
\* returns an iterator (an empty one), and neither changes the ring: no
\* head or tail moves and no consumer is registered.
C18_ZeroLength ==
    [][/\ (snd'[1] # snd[1] /\ snd[1].pc = "idle" /\ snd'[1].pc = "idle" /\ snd'[1].want = 0
              /\ snd'[1].h = "live") =>
             snd'[1].res.r = "ok" /\ snd'[1].res.n = 0 /\ ring' = ring
       /\ (rcv'[1] # rcv[1] /\ rcv[1].pc = "idle" /\ rcv'[1].pc = "idle" /\ rcv'[1].want = 0
              /\ rcv'[1].h = "live") =>
             rcv'[1].res.r = "ok" /\ rcv'[1].res.n = 0 /\ ring' = ring
      ]_vars

\* C19: a registration never makes a count u16::MAX; one that loaded a
\* count of u16::MAX - 1 returns TooManyProducers or TooManyConsumers and
\* stores nothing; and a call returns Poisoned only on a poisoned counter.
C19_NeverReachesSentinel ==
    [][/\ snd'[1] # snd[1] =>
            /\ ring'.active.producers = U16MAX => ring.active.producers = U16MAX
            /\ (snd'[1].op = "register" /\ snd'[1].pc = "idle" /\ ~is_poisoned(ring.active)
                   /\ ring.active.producers = U16MAX - 1) =>
                  snd'[1].res.r = "TooManyProducers" /\ ring'.active = ring.active
            /\ (snd'[1].pc = "idle" /\ snd'[1].res.r = "Poisoned") => is_poisoned(ring.active)
       /\ rcv'[1] # rcv[1] =>
            /\ ring'.active.consumers = U16MAX => ring.active.consumers = U16MAX
            /\ (rcv'[1].op = "register" /\ rcv'[1].pc = "idle" /\ ~is_poisoned(ring.active)
                   /\ ring.active.consumers = U16MAX - 1) =>
                  rcv'[1].res.r = "TooManyConsumers" /\ ring'.active = ring.active
            /\ (rcv'[1].pc = "idle" /\ rcv'[1].res.r = "Poisoned") => is_poisoned(ring.active)
      ]_vars

\* A register or unregister call returns in this step.
ActiveReturns(a, b) ==
    b # a /\ a.pc \in {"idle", "fu_cas"} /\ b.pc = "idle" /\ b.op \in {"register", "unregister"}

\* C20: a poisoned counter stays u32::MAX through every later step, and
\* every register and unregister call that returns on it returns Poisoned.
C20_PoisonSticky ==
    [][is_poisoned(ring.active) =>
         /\ ring'.active = PoisonedActive
         /\ ActiveReturns(snd[1], snd'[1]) => snd'[1].res.r = "Poisoned"
         /\ ActiveReturns(rcv[1], rcv'[1]) => rcv'[1].res.r = "Poisoned"
      ]_vars

\* The counter was poisoned between the load and the compare-exchange of an
\* unregister_producer, which returned Poisoned; a register_consumer
\* returned Poisoned as well.
C20_Witness ==
    /\ is_poisoned(ring.active)
    /\ snd[1].pc = "idle"
    /\ snd[1].op = "unregister"
    /\ snd[1].dirty
    /\ snd[1].res.r = "Poisoned"
    /\ rcv[1].pc = "idle"
    /\ rcv[1].op = "register"
    /\ rcv[1].res.r = "Poisoned"

\* Ring::poison has run in this step.
PoisonStep ==
    /\ ~is_poisoned(ring.active)
    /\ is_poisoned(ring'.active)
    /\ snd'[1].pc = snd[1].pc
    /\ rcv'[1].pc = rcv[1].pc

\* C21: Ring::poison leaves the counter at u32::MAX and the finished bit
\* set on the producer tail and on the consumer tail.
C21_PoisonMarksTails ==
    [][PoisonStep =>
         /\ ring'.active = PoisonedActive
         /\ is_finished(ring'.prod_headtail)
         /\ is_finished(ring'.cons_headtail)
      ]_vars

\* A call of thread record a starts in this step on a live handle and
\* leaves the record b.
CallStarts(a, b) ==
    /\ a.pc = "idle"
    /\ b # a
    /\ b.h = "live"
    /\ b.op \in {"try_send", "try_recv", "bulk", "burst"}

\* C22: on a poisoned ring a send or receive that starts is granted no
\* claim, and when it returns it returns Poisoned; nothing is written and
\* nothing is yielded.
C22_PoisonedCallsFail ==
    [][is_poisoned(ring.active) =>
         /\ CallStarts(snd[1], snd'[1]) =>
               /\ snd'[1].pc \in {"idle"} \cup MhPcs
               /\ snd'[1].pc = "idle" => snd'[1].res.r = "Poisoned"
         /\ CallStarts(rcv[1], rcv'[1]) =>
               /\ rcv'[1].pc \in {"idle"} \cup MhPcs
               /\ rcv'[1].pc = "idle" => rcv'[1].res.r = "Poisoned"
         /\ ring'.data = ring.data
         /\ recvd' = recvd
      ]_vars

\* The handle of thread record a is dropped in this step, on a thread that
\* is panicking (TRUE) or is not (FALSE).
DropsHandle(a, b, panicking) ==
    a.h = "live" /\ b.h = "dropped" /\ (b.op = "panic_drop") = panicking

\* Where a Drop goes after its unregistration left the counts own and other.
DropGoesTo(own, other) ==
    IF own = 0 /\ other = 0 THEN "cleanup" ELSE IF own = 0 THEN "mark" ELSE "idle"

\* C23: the Drop of a Sender or Receiver on a panicking thread poisons the
\* ring and leaves the counts alone otherwise; the Drop on a thread that is
\* not panicking takes one participant off its side's count, panics nowhere,
\* and goes on by the Last: nothing more (NotLast), the finished bit on its
\* own side's tail (InCategory), or the deallocation (InRing).
C23_DropOfHandle ==
    [][/\ DropsHandle(snd[1], snd'[1], TRUE) => is_poisoned(ring'.active)
       /\ DropsHandle(rcv[1], rcv'[1], TRUE) => is_poisoned(ring'.active)
       /\ DropsHandle(snd[1], snd'[1], FALSE) =>
             /\ ring'.active.producers = ring.active.producers - 1
             /\ ring'.active.consumers = ring.active.consumers
             /\ snd'[1].pc = DropGoesTo(ring'.active.producers, ring'.active.consumers)
             /\ ~flags'.panic
       /\ DropsHandle(rcv[1], rcv'[1], FALSE) =>
             /\ ring'.active.consumers = ring.active.consumers - 1
             /\ ring'.active.producers = ring.active.producers
             /\ rcv'[1].pc = DropGoesTo(ring'.active.consumers, ring'.active.producers)
             /\ ~flags'.panic
       /\ (snd[1].pc = "mark" /\ snd'[1].pc = "idle") =>
             is_finished(ring'.prod_headtail) /\ ring'.cons_headtail = ring.cons_headtail
       /\ (rcv[1].pc = "mark" /\ rcv[1].op = "drop" /\ rcv'[1].pc = "idle") =>
             is_finished(ring'.cons_headtail) /\ ring'.prod_headtail = ring.prod_headtail
       /\ (snd[1].pc = "cleanup" /\ snd'[1].pc = "idle") => ring'.freed = ring.freed + 1
       /\ (rcv[1].pc = "cleanup" /\ rcv'[1].pc = "idle") => ring'.freed = ring.freed + 1
      ]_vars

\* C23, on a ring that is not poisoned when the handle is dropped.
C23_DropOfHandleUnpoisoned ==
    [][~is_poisoned(ring.active) =>
         /\ DropsHandle(snd[1], snd'[1], TRUE) => is_poisoned(ring'.active)
         /\ DropsHandle(rcv[1], rcv'[1], TRUE) => is_poisoned(ring'.active)
         /\ DropsHandle(snd[1], snd'[1], FALSE) =>
               /\ ring'.active.producers = ring.active.producers - 1
               /\ ring'.active.consumers = ring.active.consumers
               /\ snd'[1].pc = DropGoesTo(ring'.active.producers, ring'.active.consumers)
               /\ ~flags'.panic
         /\ DropsHandle(rcv[1], rcv'[1], FALSE) =>
               /\ ring'.active.consumers = ring.active.consumers - 1
               /\ ring'.active.producers = ring.active.producers
               /\ rcv'[1].pc = DropGoesTo(ring'.active.consumers, ring'.active.producers)
               /\ ~flags'.panic
      ]_vars

\* C24: on a poisoned ring the Drop of a Sender, of a Receiver and of a
\* RecvValues ends without a panic, and with the last of them dropped the
\* ring is deallocated.
C24_DropAfterPoison ==
    [][is_poisoned(ring.active) =>
         /\ (\/ DropsHandle(snd[1], snd'[1], FALSE)
             \/ DropsHandle(rcv[1], rcv'[1], FALSE)
             \/ rcv[1].pc = "unreg" /\ rcv'[1].pc # "unreg") => ~flags'.panic
         /\ AllGone' => ring'.freed = 1
      ]_vars

\* The receiver holds nothing: no call runs and no RecvValues is left.
ReceiverAtRest == rcv[1].pc = "idle" /\ \A k \in 1..MaxIters : rcv[1].its[k] = NoIter

\* C25: every claim is given back through update_tail: the Drop of a Claim
\* never panics, also when RecvValues::new fails to register the consumer,
\* and a receiver that holds nothing has no slot reserved (the consumer
\* head is at the consumer tail); likewise the sender between two calls.
C25_ClaimsReturned ==
    [][/\ (rcv[1].pc = "reg" /\ rcv'[1].pc # "reg") => ~flags'.panic
       /\ ReceiverAtRest' => ring'.cons_headtail.head = ring'.cons_headtail.tail
       /\ snd'[1].pc = "idle" => ring'.prod_headtail.head = ring'.prod_headtail.tail
      ]_vars

\* The Last for the counts an unregistration leaves behind.
LastFor(own, other) ==
    IF own = 0 /\ other = 0 THEN "InRing" ELSE IF own = 0 THEN "InCategory" ELSE "NotLast"

\* Neither count is u16::MAX.
Unpoisoned(a) == a.producers < U16MAX /\ a.consumers < U16MAX

\* C26: on a counter that is not poisoned, the step in which an unregister
\* call returns is the step that takes one participant off its side, and
\* the Last it returns is InRing if that step made both counts zero,
\* InCategory if it made its own side zero with the other side not zero,
\* NotLast otherwise; a count that is zero stays zero, so that InRing and
\* InCategory are returned once each.
C26_LastClassified ==
    [][Unpoisoned(ring.active) =>
         /\ (ActiveReturns(snd[1], snd'[1]) /\ snd'[1].op = "unregister") =>
               /\ ring'.active.producers = ring.active.producers - 1
               /\ ring'.active.consumers = ring.active.consumers
               /\ snd'[1].res.r = LastFor(ring'.active.producers, ring'.active.consumers)
         /\ (ActiveReturns(rcv[1], rcv'[1]) /\ rcv'[1].op = "unregister") =>
               /\ ring'.active.consumers = ring.active.consumers - 1
               /\ ring'.active.producers = ring.active.producers
               /\ rcv'[1].res.r = LastFor(ring'.active.consumers, ring'.active.producers)
         /\ (Unpoisoned(ring'.active) /\ ring.active.producers = 0) => ring'.active.producers = 0
         /\ (Unpoisoned(ring'.active) /\ ring.active.consumers = 0) => ring'.active.consumers = 0
      ]_vars

\* The last producer got InCategory, after a compare-exchange that failed
\* once, and the last consumer got InRing.
C26_Witness ==
    /\ ring.active = [producers |-> 0, consumers |-> 0]
    /\ snd[1].pc = "idle"
    /\ snd[1].op = "unregister"
    /\ snd[1].dirty
    /\ snd[1].res.r = "InCategory"
    /\ rcv[1].pc = "idle"
    /\ rcv[1].op = "unregister"
    /\ rcv[1].res.r = "InRing"

\* What the error ladder gives a caller for the arguments in its record:
\* the error, or "ok" and the count.
Ladder(loc, IS_PROD) ==
    LET head == loc.old.head
        tail == loc.oldt.tail
        avail == IF IS_PROD THEN (N - 1 + tail + N - head) % N ELSE (tail + N - head) % N
    IN  CASE IS_PROD /\ loc.oldt.fin -> [r |-> "Closed", n |-> 0]
          [] ~(IS_PROD /\ loc.oldt.fin) /\ loc.old.fin -> [r |-> "Poisoned", n |-> 0]
          [] ~(IS_PROD /\ loc.oldt.fin) /\ ~loc.old.fin /\ avail = 0 ->
                [r |-> IF loc.oldt.fin THEN "Closed" ELSE IF IS_PROD THEN "Full" ELSE "Empty",
                 n |-> 0]
          [] ~(IS_PROD /\ loc.oldt.fin) /\ ~loc.old.fin /\ avail > 0
                /\ loc.exact /\ loc.want > avail ->
                [r |-> IF IS_PROD THEN "NotEnoughSpace"
                       ELSE IF loc.oldt.fin THEN "NotEnoughItemsAndClosed"
                       ELSE "NotEnoughItems",
                 n |-> 0]
          [] OTHER -> [r |-> "ok", n |-> IF loc.want < avail THEN loc.want ELSE avail]

\* C27: calculate_available returns what the error ladder gives, rung by
\* rung in its order, for every head, tail, finished bit on either,
\* expected count, EXACT and side.
C27_ErrorLadder ==
    /\ snd[1].op = "calculate_available" =>
          snd[1].res.r = Ladder(snd[1], TRUE).r /\ snd[1].res.n = Ladder(snd[1], TRUE).n
    /\ rcv[1].op = "calculate_available" =>
          rcv[1].res.r = Ladder(rcv[1], FALSE).r /\ rcv[1].res.n = Ladder(rcv[1], FALSE).n

\* A producer whose head carries the finished bit, with the consumer tail
\* finished too, was told Closed.
C27_Witness ==
    /\ snd[1].op = "calculate_available"
    /\ snd[1].old.fin
    /\ snd[1].oldt.fin
    /\ snd[1].res.r = "Closed"

\* The values ready for the consumers: the distance from the consumer head
\* to the producer tail.
ValuesReady == (ring.prod_headtail.tail + N - ring.cons_headtail.head) % N

\* A step in which move_head of sender s returns its claim.
SendClaims(s) == snd[s].pc # "write" /\ snd'[s].pc = "write"

\* A step in which move_head of receiver r returns its claim.
RecvClaims(r) == rcv[r].pc # "reg" /\ rcv'[r].pc = "reg"

\* C28: a move_head that succeeds grants min(expected, available) entries,
\* at least one, in a claim that starts at the head it found, and leaves the
\* head at (start + entries) mod N; so try_send_burst writes the first
\* min(len, free slots) values of its iterator and returns that count, and
\* try_recv_burst(n) returns a RecvValues that yields min(n, values ready)
\* values.
C28_GrantedCount ==
    [][/\ SendGranted(1) =>
            /\ snd'[1].n = Min(snd'[1].want, FreeSlots)
            /\ snd'[1].n >= 1
       /\ SendClaims(1) =>
            /\ snd'[1].claim = Claim(snd'[1].n, ring.prod_headtail.head)
            /\ ring'.prod_headtail.head = (snd'[1].claim.start + snd'[1].claim.entries) % N
       /\ (snd[1].pc = "write" /\ snd'[1].pc # "write") =>
            /\ \A i \in 0..(snd[1].n - 1) :
                  ring'.data[(snd[1].claim.start + i) % N] =
                      [v |-> Value(1, nextSeq[1] + i + 1), init |-> TRUE]
            /\ nextSeq'[1] = nextSeq[1] + snd[1].n
            /\ snd'[1].n = snd[1].n
       /\ (SendReturns(1) /\ snd'[1].res.r = "ok") => snd'[1].res.n = snd[1].n
       /\ RecvGranted(1) =>
            /\ rcv'[1].n = Min(rcv'[1].want, ValuesReady)
            /\ rcv'[1].n >= 1
       /\ RecvClaims(1) =>
            /\ rcv'[1].claim = Claim(rcv'[1].n, ring.cons_headtail.head)
            /\ ring'.cons_headtail.head = (rcv'[1].claim.start + rcv'[1].claim.entries) % N
       /\ (rcv[1].pc = "reg" /\ rcv'[1].pc = "idle" /\ rcv'[1].res.r = "ok") =>
            /\ rcv'[1].res.n = rcv[1].n
            /\ rcv'[1].its[1] = [claim |-> rcv[1].claim, consumed |-> 0,
                                 offset |-> rcv[1].claim.start]
       /\ (rcv[1].its[1] # NoIter /\ rcv'[1].its[1] # rcv[1].its[1]
              /\ Len(recvd'[1]) = Len(recvd[1]) + 1) =>
            (rcv'[1].its[1] = NoIter <=>
                rcv[1].its[1].consumed + 1 = rcv[1].its[1].claim.entries)
      ]_vars

\* A try_send_burst of two values found one slot free and returned 1, and a
\* try_recv_burst(2) found one value ready and returned a RecvValues of one.
C28_Witness ==
    /\ snd[1].pc = "idle"
    /\ snd[1].op = "burst"
    /\ snd[1].want = 2
    /\ snd[1].res.r = "ok"
    /\ snd[1].res.n = 1
    /\ rcv[1].pc = "idle"
    /\ rcv[1].op = "burst"
    /\ rcv[1].want = 2
    /\ rcv[1].res.r = "ok"
    /\ rcv[1].res.n = 1

\* The claim a holder has, NoClaim when it has none.
ClaimOf(h) ==
    CASE h[1] = "snd" -> snd[h[2]].claim
      [] h[1] = "rcv" -> rcv[h[2]].claim
      [] OTHER        -> rcv[h[2]].its[h[3]].claim

\* The holders with an outstanding claim of the producer side, of the
\* consumer side.
ProdHolders == {h \in Holders : h[1] = "snd" /\ ClaimOf(h) # NoClaim}
ConsHolders == {h \in Holders : h[1] # "snd" /\ ClaimOf(h) # NoClaim}

\* The claims of the holders hs lie one behind the other from the position
\* tail to the position head: exactly one starts at tail, and the rest lie
\* so from its end on; with no holder tail is head.
RECURSIVE ClaimsInOrder(_, _, _)
ClaimsInOrder(tail, head, hs) ==
    IF hs = {} THEN tail = head
    ELSE /\ Cardinality({h \in hs : ClaimOf(h).start = tail}) = 1
         /\ LET first == CHOOSE h \in hs : ClaimOf(h).start = tail
            IN  ClaimsInOrder(new_tail(ClaimOf(first)), head, hs \ {first})

\* The claims of the producer side, of the consumer side, lie in order
\* between the side's tail and its head.
ProdInOrder == ClaimsInOrder(ring.prod_headtail.tail, ring.prod_headtail.head, ProdHolders)
ConsInOrder == ClaimsInOrder(ring.cons_headtail.tail, ring.cons_headtail.head, ConsHolders)

C30_OneClaimAtATime ==
    [][/\ Cardinality(ProdHolders') <= 1
       /\ Cardinality(ConsHolders') <= 1
       /\ \A s \in Senders : SendClaims(s) =>
            /\ ring.prod_headtail.head = ring.prod_headtail.tail
            /\ ProdHolders = {}
       /\ \A r \in Receivers : RecvClaims(r) =>
            /\ ring.cons_headtail.head = ring.cons_headtail.tail
            /\ ConsHolders = {}
       /\ \A h \in ProdHolders : ProdHolders' = {} =>
            /\ ring'.prod_headtail.head = new_tail(ClaimOf(h))
            /\ ring'.prod_headtail.tail = new_tail(ClaimOf(h))
       /\ \A h \in ConsHolders : ConsHolders' = {} =>
            /\ ring'.cons_headtail.head = new_tail(ClaimOf(h))
            /\ ring'.cons_headtail.tail = new_tail(ClaimOf(h))
       /\ ProdHolders # {} => ring.prod_headtail.head # ring.prod_headtail.tail
       /\ ConsHolders # {} => ring.cons_headtail.head # ring.cons_headtail.tail
      ]_vars

\* Sender 2 holds a claim and sender 1 spins in move_head; receiver 2 holds
\* a claim and receiver 1 spins in move_head.
C30_Witness ==
    /\ snd[2].claim # NoClaim
    /\ snd[1].pc = "mh_load"
    /\ rcv[2].claim # NoClaim
    /\ rcv[1].pc = "mh_load"

\* The slots from a side's tail position up to its head position.
Unreturned(ht) == {(ht.tail + i) % N : i \in 0..(((ht.head + N - ht.tail) % N) - 1)}

\* The side ht with the claim holders hs is as RelaxedTailSync keeps it:
\* the slots of the claims not yet returned lie from the tail position on,
\* and with no claim out the tail is the head, position and counter.
RtsSideInOrder(ht, hs) ==
    /\ \A h \in hs : ClaimSlots(ClaimOf(h)) \subseteq Unreturned(ht)
    /\ hs = {} => ht.tail = ht.head /\ ht.tcnt = ht.hcnt

\* A step of update_tail of a thread with the locals loc and loc2 after it
\* on the side ht, ht2 after it: the step that reads the head takes the
\* head position with the counter that catches up and the old position
\* otherwise; the compare-exchange stores that or starts over; a step out
\* of update_tail is a step of the thread itself.
RtsUpdateStep(loc, loc2, ht, ht2) ==
    /\ (loc.pc = "ut_head" /\ loc2.pc = "ut_cas") =>
            loc2.newt.tail = IF (loc.oldt.tcnt + 1) % N = ht.hcnt
                             THEN ht.head ELSE loc.oldt.tail
    /\ (loc.pc = "ut_cas" /\ loc2 # loc) =>
            \/ loc2.pc = "ut_head" /\ ht2 = ht
            \/ /\ loc2.pc \notin UtPcs
               /\ ht2.tail = loc.newt.tail /\ ht2.tcnt = loc.newt.tcnt
    /\ (loc.pc \in {"ut_load", "ut_head", "ut_cas"} /\ loc2 = loc) =>
            loc2.pc = loc.pc

C31_Witness ==
    /\ snd[1].pc = "idle"
    /\ snd[1].res.r = "ok"
    /\ snd[2].pc = "write"
    /\ ring.prod_headtail.tcnt # ring.prod_headtail.hcnt
    /\ ring.prod_headtail.tail = snd[2].claim.start
    /\ snd[2].claim.start # ring.prod_headtail.head

\* C33: with several RecvValues of one receiver out at the same time, read
\* or dropped in any order, the slots of every claim of the consumer side
\* not yet returned stay between the consumer tail and the consumer head,
\* and no send writes a slot that still holds a value.
C33_IteratorsKeepSlots ==
    /\ \A h \in ConsHolders : ClaimSlots(ClaimOf(h)) \subseteq Unreturned(ring.cons_headtail)
    /\ ~flags.dblWrite

\* A step of one side, from ht with the claim holders hs to ht2 with hs2,
\* keeps the head ahead of the tail: with no claim out the head is the tail;
\* a step that moves the head leaves the tail where it is; a step that moves
\* the tail moves it forward, at most up to the head.
HeadLeads(ht, hs, ht2, hs2) ==
    /\ hs2 = {} => ht2.head = ht2.tail
    /\ ht2.head # ht.head => ht2.tail = ht.tail
    /\ ht2.tail # ht.tail => (ht2.tail + N - ht.tail) % N <= (ht.head + N - ht.tail) % N

\* C32: on each side, in every mode, the head equals the tail (the finished
\* bit aside) whenever the side has no claim out; granting a claim moves
\* the head only, and returning claims moves the tail forward towards the
\* head, never past it and never backwards.
C32_HeadLeadsTail ==
    [][/\ HeadLeads(ring.prod_headtail, ProdHolders, ring'.prod_headtail, ProdHolders')
       /\ HeadLeads(ring.cons_headtail, ConsHolders, ring'.cons_headtail, ConsHolders')
      ]_vars

\* A thread with the locals loc, loc2 after the step, goes into
\* mark_finished of the tail ht of its side only in the step that takes the
\* side's count cnt from 1 to 0 (cnt2 after the step), with no other thread
\* of the side (busy) in it and the tail not marked; its mark_finished finds
\* the tail not marked and leaves it marked.
MarksOnce(loc, loc2, ht, ht2, cnt, cnt2, busy) ==
    /\ (loc.pc # "mark" /\ loc2.pc = "mark") =>
            cnt = 1 /\ cnt2 = 0 /\ ~busy /\ ~is_finished(ht)
    /\ (loc.pc = "mark" /\ loc2.pc # "mark") =>
            ~is_finished(ht) /\ is_finished(ht2)

\* C34: mark_finished runs at most once on the tail of each side, also
\* when the ring is poisoned after or while a side closes: it is entered
\* only by the participant that takes the count of its side to zero, and it
\* finds the tail without the finished bit, so its assertion holds.
C34_MarkedOnce ==
    [][/\ \A s \in Senders :
            MarksOnce(snd[s], snd'[s], ring.prod_headtail, ring'.prod_headtail,
                      ring.active.producers, ring'.active.producers,
                      \E t \in Senders : snd[t].pc = "mark")
       /\ \A r \in Receivers :
            MarksOnce(rcv[r], rcv'[r], ring.cons_headtail, ring'.cons_headtail,
                      ring.active.consumers, ring'.active.consumers,
                      \E t \in Receivers : rcv[t].pc = "mark")
      ]_vars

\* The consumer side has closed with its mark on the tail, and the ring was
\* poisoned afterwards by the drop of the Sender on a panicking thread.
C34_Witness ==
    /\ is_finished(ring.cons_headtail)
    /\ rcv[1].h = "dropped"
    /\ rcv[1].pc = "idle"
    /\ is_poisoned(ring.active)
    /\ snd[1].op = "panic_drop"

\* C35: Ring::cleanup releases the ring only when the producer tail and the
\* consumer tail both carry the finished bit.
C35_FreedAfterBothMarks ==
    [][ring'.freed # ring.freed =>
            is_finished(ring.prod_headtail) /\ is_finished(ring.cons_headtail)]_vars

\* C36: nothing touches the ring after its release.  The step of
\* Ring::cleanup that releases it finds every other Sender, Receiver and
\* RecvValues gone and its drop at its end, the mark_finished of the last
\* participant of the other side included, and one of the tails marked; no
\* later step changes the ring.
C36_NoUseAfterFree ==
    [][/\ ring'.freed # ring.freed =>
            /\ AllGone'
            /\ \A s \in Senders : snd[s].pc # "mark"
            /\ \A r \in Receivers : rcv[r].pc # "mark"
            /\ is_finished(ring.prod_headtail) \/ is_finished(ring.cons_headtail)
       /\ ring.freed > 0 => ring' = ring
      ]_vars

\* A Receiver that got Last::InRing is in Ring::cleanup while the last
\* Sender, which got Last::InCategory, has not yet marked the producer tail.
C36_Witness ==
    /\ \E s \in Senders : snd[s].pc = "mark"
    /\ \E r \in Receivers : rcv[r].pc = "cleanup"
    /\ ~is_finished(ring.prod_headtail)
    /\ ring.freed = 0

LiveIterators ==
    Cardinality({<<r, k>> \in Receivers \X (1..MaxIters) : rcv[r].its[k] # NoIter})
        + Cardinality({r \in Receivers : rcv[r].pc \in UtPcs \cup {"unreg"}})

HintReturns(r) ==
    /\ rcv'[r] # rcv[r]
    /\ rcv[r].pc = "idle"
    /\ rcv'[r].pc = "idle"
    /\ rcv'[r].op \in {"recv_values.rs", "ring.rs"}

\* C39: a RecvValues over a claim of e entries, wherever the claim starts,
\* returns (e - k, Some(e - k)) from size_hint after k calls of next, and 0
\* when it is exhausted; next yields a value e times, and the claim goes
\* back with the e-th value and not before.
C39_ExactSize ==
    [][/\ HintReturns(1) =>
            /\ rcv'[1].res.r = "hint"
            /\ rcv'[1].res.n = IF rcv[1].its[1] = NoIter THEN 0
                               ELSE rcv[1].its[1].claim.entries - rcv[1].its[1].consumed
            /\ rcv'[1].its = rcv[1].its
       /\ (rcv[1].its[1] # NoIter /\ Len(recvd'[1]) = Len(recvd[1]) + 1) =>
            /\ rcv[1].its[1].consumed < rcv[1].its[1].claim.entries
            /\ IF rcv[1].its[1].consumed + 1 = rcv[1].its[1].claim.entries
               THEN rcv'[1].its[1] = NoIter /\ rcv'[1].claim = rcv[1].its[1].claim
               ELSE /\ rcv'[1].its[1].claim = rcv[1].its[1].claim
                    /\ rcv'[1].its[1].consumed = rcv[1].its[1].consumed + 1
      ]_vars

\* C40: when the ring is deallocated no slot holds an initialised value: what
\* was sent and not received has been dropped before the memory is released.
C40_NothingLeftInRing ==
    [][ring'.freed # ring.freed => \A i \in Slots : ~ring'.data[i].init]_vars

====
